---- MODULE Spec2Model ----
(***************************************************************************)
(* Model of the data-source pipeline of poovarasudev/shares:               *)
(*   - GoogleSheetsSource.fetch_data   (src/data_sources/google_sheets.py) *)
(*   - DataSourceBase.load_data        (src/data_sources/base.py)          *)
(*   - load_cached_data / clear_source_cache, i.e. the st.cache_data memo  *)
(*     around load_data                (src/data_sources/registry.py)      *)
(*   - DataSourceRegistry, init_data_sources, ensure_data_source           *)
(*                   (src/data_sources/registry.py, __init__.py)           *)
(*   - DataSourceBase.process_data and the derived-column processors       *)
(*                   (src/data_sources/base.py, processors.py)             *)
(* Page renders of independent client sessions run concurrently.  A call   *)
(* of load_cached_data that misses the cache takes two steps: the lookup,  *)
(* and the end of the wrapped body with the write of the entry; other      *)
(* sessions run in between.  Where st.cache_data makes a second miss of    *)
(* the same key wait for the first body, the waiting call then finds the   *)
(* entry and behaves as a call made after the write, which is one of the   *)
(* schedules of Next.                                                      *)
(***************************************************************************)
EXTENDS Integers, Sequences, FiniteSets, TLC

VARIABLES
    config,       \* source name -> DataSourceConfig fields read by the pipeline
    cache,        \* st.cache_data store of load_cached_data: source_name -> entry
    now,          \* wall clock, seconds
    sess,         \* client session -> the call it runs or last ran
    probe,        \* what a test harness recorded of the call it watches
    flog,         \* session -> the harness's record of its last direct fetch_data()
    env,          \* const.GOOGLE_SHEET_URL
    registry,     \* DataSourceRegistry._sources: name -> source or None
    hist,         \* the harness's list of the writes to _sources, in order
    rlog,         \* the harness's record of the last registry call
    tlog          \* the harness's record of a process_data / processor call

regVars == <<env, registry, hist, rlog>>
tabVars == <<tlog>>

vars == <<config, cache, now, sess, probe, flog, env, registry, hist, rlog, tlog>>

----------------------------------------------------------------------------
(* Bounds of the model *)

MaxUrlLen == 4       \* longest sheet_url drawn in InitFetch
MaxRetriesCfg == 3   \* largest max_retries drawn in InitFetch
NumVersions == 2     \* distinct sheet contents the endpoint may serve

(* Program constants *)

CacheTTL == 86400        \* @st.cache_data(ttl=86400)
DefaultTTL == 900        \* DataSourceConfig.cache_ttl default
DefaultMaxRetries == 3   \* connection_params.get('max_retries', 3)

Sources == {"money_control", "aionion_baskets"}
Sessions == {"s1", "s2"}

----------------------------------------------------------------------------
(* Tables.  A DataFrame is abstracted to the sheet content it carries      *)
(* (data; 0 for none), whether it has no rows (df.empty), and whether      *)
(* process_data has produced it.                                           *)

EmptyDF == [data |-> 0, empty |-> TRUE, processed |-> FALSE]   \* pd.DataFrame()

IsEmpty(d) == d.empty                                           \* df.empty

\* what pd.read_csv can parse from the endpoint: a sheet with rows, or a
\* header without rows
HeaderOnly == [data |-> 1, empty |-> TRUE, processed |-> FALSE]

Responses == [data : 1..NumVersions, empty : {FALSE}, processed : {FALSE}] \cup {HeaderOnly}

process_data(d) == [d EXCEPT !.processed = TRUE]

----------------------------------------------------------------------------
(* GoogleSheetsSource._build_csv_url: re.search(r"/d/([a-zA-Z0-9-_]+)")    *)

UrlChars == {"/", "d", "k", "?"}
KeyChars == {"d", "k"}            \* members of [a-zA-Z0-9-_]; "/" and "?" are not

NoUrl == [some |-> FALSE, key |-> <<>>]

MatchAt(url, i) ==
    /\ i + 3 <= Len(url)
    /\ url[i] = "/" /\ url[i + 1] = "d" /\ url[i + 2] = "/"
    /\ url[i + 3] \in KeyChars

RECURSIVE KeyRun(_, _)
KeyRun(url, j) ==
    IF j <= Len(url) /\ url[j] \in KeyChars
    THEN <<url[j]>> \o KeyRun(url, j + 1)
    ELSE <<>>

\* mutant: any non-empty sheet_url is taken for a sheet link
_build_csv_url_nonempty(url) ==
    IF url = <<>> THEN NoUrl ELSE [some |-> TRUE, key |-> url]

_build_csv_url(url) ==
    IF url = <<>> THEN NoUrl
    ELSE LET hits == {i \in 1..Len(url) : MatchAt(url, i)}
         IN IF hits = {} THEN NoUrl
            ELSE LET i == CHOOSE m \in hits : \A n \in hits : m <= n
                 IN [some |-> TRUE, key |-> KeyRun(url, i + 3)]

connect(url) == _build_csv_url(url).some

----------------------------------------------------------------------------
(* Configurations *)

RECURSIVE SeqsUpTo(_, _)
SeqsUpTo(S, n) ==
    IF n = 0 THEN {<<>>}
    ELSE LET shorter == SeqsUpTo(S, n - 1)
         IN shorter \cup {Append(q, c) : q \in {x \in shorter : Len(x) = n - 1}, c \in S}

SheetUrls == SeqsUpTo(UrlChars, MaxUrlLen)

\* STOCK_GOOGLE_SHEET_URL: a text without a document key, or a sheet link.
\* (init_data_sources registers no source when it is empty.)
EnvUrls == {<<"?">>, <<"/", "d", "/", "k">>}

\* create_google_sheets_source: the fields of DataSourceConfig the pipeline can read
create_google_sheets_source(url, retries, ttl) ==
    [sheet_url |-> url, max_retries |-> retries, cache_ttl |-> ttl]

----------------------------------------------------------------------------
(* The st.cache_data store behind load_cached_data.  The key is            *)
(* source_name alone (_source is excluded from the hash); the ttl is the   *)
(* decorator's.                                                            *)

NoEntry == [present |-> FALSE, table |-> EmptyDF, storedAt |-> 0]

\* mutant: the ttl is not applied
LookupNoTTL(entry, t) == entry.present

\* cache hit: an entry is kept for ttl seconds after it was written
Lookup(entry, t) == entry.present /\ t < entry.storedAt + CacheTTL

\* mutant: empty results are not cached
StoreNonEmpty(c, s, table, t) ==
    IF IsEmpty(table) THEN c
    ELSE [c EXCEPT ![s] = [present |-> TRUE, table |-> table, storedAt |-> t]]

\* cache write of the value load_cached_data returned
Store(c, s, table, t) ==
    [c EXCEPT ![s] = [present |-> TRUE, table |-> table, storedAt |-> t]]

\* load_cached_data.clear(): drops the entries of every key
clear(c) == [s \in DOMAIN c |-> NoEntry]

\* mutant: the fetched table is handed on before process_data has run
load_data_raw(d) == d

\* DataSourceBase.load_data, after fetch_data returned d
load_data(d) == IF IsEmpty(d) THEN d ELSE process_data(d)

----------------------------------------------------------------------------
(* GoogleSheetsSource.fetch_data.  f is the state of one invocation:       *)
(* the locals (attempt, df), whether it has returned (over), and what a    *)
(* test harness counts of it.                                              *)

RECURSIVE Pow2(_)
Pow2(n) == IF n = 0 THEN 1 ELSE 2 * Pow2(n - 1)

FetchStart ==
    [over |-> FALSE,
     attempt |-> 0,      \* loop variable
     netCalls |-> 0,     \* pd.read_csv invocations
     waits |-> <<>>,     \* time.sleep durations, in order
     seen |-> <<>>,      \* what each read_csv ended in, in order
     msg |-> "none",     \* the st.error / st.warning shown
     df |-> EmptyDF]     \* the return value

\* lines 54-56: no CSV URL
OnNoUrl(f) == [f EXCEPT !.over = TRUE, !.msg = "NotConfigured", !.df = EmptyDF]

\* lines 60-66: read_csv parsed a table
OnParsed(f, d) ==
    IF IsEmpty(d)
    THEN [f EXCEPT !.over = TRUE, !.msg = "Empty", !.df = EmptyDF, !.netCalls = @ + 1]
    ELSE [f EXCEPT !.over = TRUE, !.df = d, !.netCalls = @ + 1]

\* mutant: the sleep is not skipped after the last attempt
OnURLErrorAlwaysSleep(f, maxRetries) ==
    [f EXCEPT !.netCalls = @ + 1,
              !.waits = Append(@, Pow2(f.attempt)),
              !.attempt = @ + 1]

\* mutant: every wait is one second
OnURLErrorFixedWait(f, maxRetries) ==
    [f EXCEPT !.netCalls = @ + 1,
              !.waits = IF f.attempt < maxRetries - 1 THEN Append(@, 1) ELSE @,
              !.attempt = @ + 1]

\* lines 68-71: urllib.error.URLError; sleep unless this was the last attempt
OnURLError(f, maxRetries) ==
    [f EXCEPT !.netCalls = @ + 1,
              !.waits = IF f.attempt < maxRetries - 1
                        THEN Append(@, Pow2(f.attempt)) ELSE @,
              !.attempt = @ + 1]

\* mutant: a parse error is retried like a network error, without a sleep
OnParserErrorRetry(f) ==
    [f EXCEPT !.netCalls = @ + 1, !.attempt = @ + 1]

\* lines 73-75: pd.errors.ParserError
OnParserError(f) ==
    [f EXCEPT !.over = TRUE, !.msg = "ParseFailure", !.df = EmptyDF, !.netCalls = @ + 1]

\* lines 77-79: pd.errors.EmptyDataError
OnEmptyDataError(f) ==
    [f EXCEPT !.over = TRUE, !.msg = "Empty", !.df = EmptyDF, !.netCalls = @ + 1]

\* lines 81-82: range(max_retries) is exhausted
OnExhausted(f) == [f EXCEPT !.over = TRUE, !.msg = "Unreachable", !.df = EmptyDF]

ErrorKinds == {"URLError", "ParserError", "EmptyDataError"}

\* what one pd.read_csv can end in
AttemptResults ==
    [kind : {"ok"}, df : Responses] \cup [kind : ErrorKinds, df : {EmptyDF}]

\* a parsed table without rows is logged as "empty"
Kind(r) == IF r.kind = "ok" /\ IsEmpty(r.df) THEN "empty" ELSE r.kind

\* one iteration of the retry loop, its read_csv ending in r
Iteration(f, r, maxRetries) ==
    LET next == CASE r.kind = "ok" -> OnParsed(f, r.df)
                  [] r.kind = "URLError" -> OnURLError(f, maxRetries)
                  [] r.kind = "ParserError" -> OnParserError(f)
                  [] r.kind = "EmptyDataError" -> OnEmptyDataError(f)
    IN [next EXCEPT !.seen = Append(@, Kind(r))]

\* for attempt in range(self.max_retries): ..., then lines 81-82.
\* net[i] is what the i-th read_csv of this invocation ends in.
RECURSIVE RetryLoop(_, _, _)
RetryLoop(f, net, maxRetries) ==
    IF f.over THEN f
    ELSE IF f.attempt >= maxRetries THEN OnExhausted(f)
    ELSE RetryLoop(Iteration(f, net[f.attempt + 1], maxRetries), net, maxRetries)

fetch_data(cfg, net) ==
    IF ~_build_csv_url(cfg.sheet_url).some
    THEN OnNoUrl(FetchStart)
    ELSE RetryLoop(FetchStart, net, cfg.max_retries)

\* The endpoint during one invocation, which issues at most n requests:
\* net[i] is what the i-th request ends in.  The endpoint is unreachable
\* for the first k requests and answers every later one with r.
Networks(n) ==
    {[i \in 1..n |-> IF i <= k THEN [kind |-> "URLError", df |-> EmptyDF] ELSE r] :
        k \in 0..n, r \in AttemptResults}

----------------------------------------------------------------------------
(* Sessions and the harness.  A session is idle or inside the body of      *)
(* load_cached_data.  The harness watches one call at a time: probe holds  *)
(* what it recorded when the call was made and, once done, what the call   *)
(* returned and how often it invoked fetch_data.  It can also watch an     *)
(* invalidation (who = "armed") and then the next call made for that name. *)

Idle == [pc |-> "idle", src |-> "money_control"]

NoProbe ==
    [who |-> "none", src |-> "money_control",
     prevState |-> "absent",  \* the entry of src at the call: absent, fresh or expired
     prevTable |-> EmptyDF,   \* its table
     forced |-> FALSE,        \* the first call for src made after a watched invalidation
     done |-> FALSE,          \* the call has returned
     hit |-> FALSE,           \* it was served from the cache
     fetches |-> 0,           \* its fetch_data invocations
     msg |-> "none",          \* the message its fetch_data showed
     ret |-> EmptyDF]         \* what it returned to the page

\* the harness's view of an entry e at time t, by the ttl of the decorator
EntryState(e, t) ==
    IF ~e.present THEN "absent"
    ELSE IF t - e.storedAt < CacheTTL THEN "fresh" ELSE "expired"

Armed(s) == probe.who = "armed" /\ probe.src = s

Watching(p, s) ==
    [NoProbe EXCEPT !.who = p, !.src = s,
                    !.prevState = EntryState(cache[s], now),
                    !.prevTable = cache[s].table,
                    !.forced = Armed(s)]

\* the clock readings that tell the cases apart: before any ttl has run
\* out, after the shorter cache_ttl, after the ttl of the decorator
TimePoints == {0, DefaultTTL, CacheTTL}

----------------------------------------------------------------------------
(* Actions *)

\* load_cached_data(s, source): st.cache_data looks source_name up and
\* returns the entry's table, or on a miss starts the wrapped body,
\* _source.load_data().  With watch the harness records the call.
Call(p, s, watch) ==
    /\ sess[p].pc = "idle"
    /\ IF Lookup(cache[s], now)
       THEN /\ sess' = sess
            /\ probe' = IF watch \/ Armed(s)
                        THEN [Watching(p, s) EXCEPT !.done = TRUE, !.hit = TRUE,
                                                    !.ret = cache[s].table]
                        ELSE probe
       ELSE /\ sess' = [sess EXCEPT ![p] = [pc |-> "loading", src |-> s]]
            /\ probe' = IF watch \/ Armed(s)
                        THEN [Watching(p, s) EXCEPT !.fetches = 1]
                        ELSE probe
    /\ UNCHANGED <<config, cache, now, flog, regVars, tabVars>>

\* The body of load_cached_data runs to its end: load_data calls
\* fetch_data (which touches nothing shared, so its retry loop is one
\* step), processes a non-empty table, st.cache_data writes the entry and
\* the call returns.
Load(p, f) ==
    /\ sess[p].pc = "loading"
    /\ LET s == sess[p].src
           result == load_data(f.df)
       IN /\ cache' = Store(cache, s, result, now)
          /\ probe' = IF probe.who = p /\ ~probe.done
                      THEN [probe EXCEPT !.done = TRUE, !.msg = f.msg, !.ret = result]
                      ELSE probe
    /\ sess' = [sess EXCEPT ![p] = Idle]
    /\ UNCHANGED <<config, now, flog, regVars, tabVars>>

\* clear_source_cache(s), as the Refresh button of a page calls it
ClearSourceCache(p, s, watch) ==
    /\ sess[p].pc = "idle"
    /\ cache' = clear(cache)
    /\ probe' = IF watch THEN [NoProbe EXCEPT !.who = "armed", !.src = s] ELSE probe
    /\ UNCHANGED <<config, now, sess, flog, regVars, tabVars>>

\* clear_source_cache(a), after which the harness watches the next call
\* made for the name b
ClearWatch(p, a, b) ==
    /\ sess[p].pc = "idle"
    /\ cache' = clear(cache)
    /\ probe' = [NoProbe EXCEPT !.who = "armed", !.src = b]
    /\ UNCHANGED <<config, now, sess, flog, regVars, tabVars>>

\* time passes
Tick ==
    /\ \E t \in TimePoints : t > now /\ now' = t
    /\ UNCHANGED <<config, cache, sess, probe, flog, regVars, tabVars>>

\* source.fetch_data() called directly; the harness keeps its record
FetchData(p, s, f) ==
    /\ flog' = [flog EXCEPT ![p] = f]
    /\ UNCHANGED <<config, cache, now, sess, probe, regVars, tabVars>>

\* every record fetch_data can end with under cfg
FetchRuns(cfg) ==
    {fetch_data(cfg, net) :
        net \in Networks(IF cfg.max_retries > 0 THEN cfg.max_retries ELSE 0)}

\* what load_data can get from fetch_data under cfg: message and table
Fetches(cfg) == {[msg |-> f.msg, df |-> f.df] : f \in FetchRuns(cfg)}

----------------------------------------------------------------------------
(* DataSourceRegistry, init_data_sources and ensure_data_source.  A source *)
(* object is its class and the DataSourceConfig it was built from.         *)

MaxOps == 4      \* most writes to _sources the harness lists

Names == Sources \cup {"money_control_events", "scanx_trade", "other"}

DataSourceConfig(name, source_type, conn) ==
    [name |-> name, source_type |-> source_type, conn |-> conn]

GoogleSheetsSource(cfg) == [class |-> "GoogleSheetsSource", config |-> cfg]

None ==
    [class |-> "NoneType",
     config |-> DataSourceConfig("", "", create_google_sheets_source(<<>>, 0, 0))]

\* DataSourceRegistry._source_types
_source_types == {"google_sheets"}

\* mutant: a registration is not replaced by a later one
register_keep_first(reg, name, source) ==
    IF reg[name] # None THEN reg ELSE [reg EXCEPT ![name] = source]

\* DataSourceRegistry.register: cls._sources[name] = source
register(reg, name, source) == [reg EXCEPT ![name] = source]

\* DataSourceRegistry.get: cls._sources.get(name)
get(reg, name) == reg[name]

\* DataSourceRegistry.clear: cls._sources.clear()
registry_clear(reg) == [n \in DOMAIN reg |-> None]

\* the outcome of a call on the registry: the _sources it leaves, the
\* writes it made in order, whether it returned a true value, the
\* exception it let out
Outcome(reg, puts, ret, raised) ==
    [reg |-> reg, puts |-> puts, ret |-> ret, raised |-> raised]

Put(name, source) == [name |-> name, source |-> source]

\* DataSourceRegistry.create
create(reg, cfg) ==
    IF cfg.source_type \notin _source_types
    THEN Outcome(reg, <<>>, FALSE, "ValueError")
    ELSE LET source == GoogleSheetsSource(cfg)
         IN Outcome(register(reg, cfg.name, source), <<Put(cfg.name, source)>>,
                    TRUE, "none")

\* the sources init_data_sources registers before it reads
\* const.AIONION_SHEET_TAB, in order
InitNames == <<"money_control", "money_control_events", "scanx_trade">>

\* The sources as init_data_sources builds them: one sheet URL from the
\* environment, the default max_retries, cache_ttl per source
\* (MC_CACHE_TTL, SCANX_CACHE_TTL; AIONION_CACHE_TTL, "15 minutes").
SourceTTL(s) == IF s = "aionion_baskets" THEN DefaultTTL ELSE CacheTTL

InitSource(name, url) ==
    GoogleSheetsSource(DataSourceConfig(name, "google_sheets",
        create_google_sheets_source(url, DefaultMaxRetries, SourceTTL(name))))

RECURSIVE RegisterAll(_, _, _)
RegisterAll(reg, names, url) ==
    IF names = <<>> THEN reg
    ELSE RegisterAll(register(reg, Head(names), InitSource(Head(names), url)),
                     Tail(names), url)

\* init_data_sources.  With a sheet URL it registers InitNames and then
\* reads const.AIONION_SHEET_TAB, which config/constants.py does not
\* define: the AttributeError leaves the function.
init_data_sources(reg, url) ==
    IF url = <<>>
    THEN Outcome(reg, <<>>, TRUE, "none")
    ELSE Outcome(RegisterAll(reg, InitNames, url),
                 [i \in 1..Len(InitNames) |-> Put(InitNames[i], InitSource(InitNames[i], url))],
                 FALSE, "AttributeError")

\* ensure_data_source
ensure_data_source(reg, url, name) ==
    IF get(reg, name) # None
    THEN Outcome(reg, <<>>, TRUE, "none")
    ELSE init_data_sources(reg, url)

\* the names and configurations the harness registers directly: a sheet
\* link, no endpoint, and a source kind without a class
RegNames == {"money_control", "other"}
SheetLink == <<"/", "d", "/", "k">>
SomeConfigs ==
    {DataSourceConfig("money_control", "google_sheets",
                      create_google_sheets_source(SheetLink, DefaultMaxRetries, DefaultTTL)),
     DataSourceConfig("other", "google_sheets",
                      create_google_sheets_source(<<>>, DefaultMaxRetries, DefaultTTL)),
     DataSourceConfig("other", "database",
                      create_google_sheets_source(SheetLink, DefaultMaxRetries, DefaultTTL))}
SomeSources == {GoogleSheetsSource(c) : c \in {d \in SomeConfigs : d.source_type \in _source_types}}

ClearMark == Put("*", None)

NoCall == [op |-> "none", name |-> "", source |-> None, ret |-> FALSE, raised |-> "none"]

Logged(op, name, source, out) ==
    [op |-> op, name |-> name, source |-> source,
     ret |-> out.ret, raised |-> out.raised]

\* the harness lists the writes of a call, while its list has room
Listed(out) ==
    /\ Len(hist) + Len(out.puts) <= MaxOps
    /\ hist' = hist \o out.puts

Register(name, source) ==
    LET out == Outcome(register(registry, name, source), <<Put(name, source)>>,
                       TRUE, "none")
    IN /\ Listed(out)
       /\ registry' = out.reg
       /\ rlog' = Logged("register", name, source, out)
       /\ UNCHANGED <<config, cache, now, sess, probe, flog, env, tabVars>>

Create(cfg) ==
    LET out == create(registry, cfg)
    IN /\ Listed(out)
       /\ registry' = out.reg
       /\ rlog' = Logged("create", cfg.name, GoogleSheetsSource(cfg), out)
       /\ UNCHANGED <<config, cache, now, sess, probe, flog, env, tabVars>>

RegistryClear ==
    LET out == Outcome(registry_clear(registry), <<ClearMark>>, TRUE, "none")
    IN /\ Listed(out)
       /\ registry' = out.reg
       /\ rlog' = Logged("clear", "", None, out)
       /\ UNCHANGED <<config, cache, now, sess, probe, flog, env, tabVars>>

InitDataSources ==
    LET out == init_data_sources(registry, env)
    IN /\ Listed(out)
       /\ registry' = out.reg
       /\ rlog' = Logged("init", "", None, out)
       /\ UNCHANGED <<config, cache, now, sess, probe, flog, env, tabVars>>

EnsureDataSource(name) ==
    LET out == ensure_data_source(registry, env, name)
    IN /\ Listed(out)
       /\ registry' = out.reg
       /\ rlog' = Logged("ensure", name, None, out)
       /\ UNCHANGED <<config, cache, now, sess, probe, flog, env, tabVars>>

\* mutant: the entry of the name is not served to the new source
ReregisterDropsEntry(s, u) ==
    /\ registry[s] = None
    /\ \A p \in Sessions : ~(sess[p].pc = "loading" /\ sess[p].src = s)
    /\ u # config[s].sheet_url
    /\ config' = [config EXCEPT ![s] =
                    create_google_sheets_source(u, DefaultMaxRetries, SourceTTL(s))]
    /\ registry' = register(registry, s, InitSource(s, u))
    /\ cache' = [cache EXCEPT ![s] = NoEntry]
    /\ UNCHANGED <<now, sess, probe, flog, env, hist, rlog, tabVars>>

\* DataSourceRegistry.register(s, source) with a source built for the
\* sheet_url u: from then on pages pass this source to load_cached_data.
\* A call that is inside load_data keeps the source it was called with, so
\* the step is taken while no load of s is in flight.  The harness keeps
\* no list of these writes and registers a name anew once.
Reregister(s, u) ==
    /\ registry[s] = None
    /\ \A p \in Sessions : ~(sess[p].pc = "loading" /\ sess[p].src = s)
    /\ u # config[s].sheet_url
    /\ config' = [config EXCEPT ![s] =
                    create_google_sheets_source(u, DefaultMaxRetries, SourceTTL(s))]
    /\ registry' = register(registry, s, InitSource(s, u))
    /\ UNCHANGED <<cache, now, sess, probe, flog, env, hist, rlog, tabVars>>

----------------------------------------------------------------------------
(* Tables: DataSourceBase.process_data and the derived-column processors *)

MaxRows == 2     \* most rows of a sheet drawn in InitTab

\* F(x), with x evaluated once
Then(x, F(_)) == CHOOSE y \in {F(v) : v \in {x}} : TRUE

(* Text.  A Python string is a sequence of one-character strings.          *)

Capitals == <<"A", "B", "C", "D", "E", "F", "G", "H", "I", "J", "K", "L", "M", "N", "O", "P", "Q", "R", "S", "T", "U", "V", "W", "X", "Y", "Z">>
Smalls == <<"a", "b", "c", "d", "e", "f", "g", "h", "i", "j", "k", "l", "m", "n", "o", "p", "q", "r", "s", "t", "u", "v", "w", "x", "y", "z">>
Digits == <<"0", "1", "2", "3", "4", "5", "6", "7", "8", "9">>

ToLower == [c \in {Capitals[i] : i \in 1..Len(Capitals)} |->
                Smalls[CHOOSE i \in 1..Len(Capitals) : Capitals[i] = c]]
ToUpper == [c \in {Smalls[i] : i \in 1..Len(Smalls)} |->
                Capitals[CHOOSE i \in 1..Len(Smalls) : Smalls[i] = c]]
DigitSet == {Digits[i] : i \in 1..Len(Digits)}

IsUpper(c) == c \in DOMAIN ToLower
IsLower(c) == c \in DOMAIN ToUpper
IsDigit(c) == c \in DigitSet

\* str.lower and str.upper on one character
lower(c) == IF IsUpper(c) THEN ToLower[c] ELSE c
upper(c) == IF IsLower(c) THEN ToUpper[c] ELSE c

\* str.strip: blanks at both ends are dropped
RECURSIVE lstrip(_)
lstrip(s) == IF s # <<>> /\ Head(s) = " " THEN Then(Tail(s), lstrip) ELSE s

RECURSIVE rstrip(_)
rstrip(s) == IF s # <<>> /\ s[Len(s)] = " " THEN Then(SubSeq(s, 1, Len(s) - 1), rstrip) ELSE s

strip(s) == Then(lstrip(s), rstrip)

\* str.title: the first letter of every run of letters in upper case, the
\* other letters in lower case
title(s) ==
    [i \in 1..Len(s) |->
        IF i > 1 /\ (IsUpper(s[i - 1]) \/ IsLower(s[i - 1])) THEN lower(s[i]) ELSE upper(s[i])]

\* the end of the run of lower-case letters that starts at position i
RECURSIVE LowerRunEnd(_, _)
LowerRunEnd(s, i) ==
    IF i < Len(s) /\ IsLower(s[i + 1]) THEN LowerRunEnd(s, i + 1) ELSE i

\* re.sub('(.)([A-Z][a-z]+)', r'\1_\2', s)
RECURSIVE SubCapWord(_)
SubCapWord(s) ==
    IF Len(s) < 3 THEN s
    ELSE IF IsUpper(s[2]) /\ IsLower(s[3])
         THEN Then(LowerRunEnd(s, 3), LAMBDA k :
                <<s[1], "_">> \o SubSeq(s, 2, k)
                    \o Then(SubSeq(s, k + 1, Len(s)), SubCapWord))
         ELSE <<s[1]>> \o Then(Tail(s), SubCapWord)

\* re.sub('([a-z0-9])([A-Z])', r'\1_\2', s)
RECURSIVE SubCamel(_)
SubCamel(s) ==
    IF Len(s) < 2 THEN s
    ELSE IF (IsLower(s[1]) \/ IsDigit(s[1])) /\ IsUpper(s[2])
         THEN <<s[1], "_", s[2]>> \o Then(SubSeq(s, 3, Len(s)), SubCamel)
         ELSE <<s[1]>> \o Then(Tail(s), SubCamel)

\* DataSourceBase._to_snake_case
_to_snake_case(name) ==
    Then(strip(SelectSeq(name, LAMBDA c : c # "\\ufeff")), LAMBDA s :
        Then(SubCapWord(s), LAMBDA s1 :
            Then(SubCamel(s1), LAMBDA t :
                [i \in 1..Len(t) |-> IF t[i] = " " THEN "_" ELSE lower(t[i])])))

\* int(text), for a text of digits
RECURSIVE ParseInt(_)
ParseInt(s) ==
    IF s = <<>> THEN 0
    ELSE 10 * ParseInt(SubSeq(s, 1, Len(s) - 1))
         + (CHOOSE d \in 0..9 : Digits[d + 1] = s[Len(s)])

IsNumeral(s) == s # <<>> /\ \A i \in 1..Len(s) : IsDigit(s[i])

\* str(n) of an int
RECURSIVE IntText(_)
IntText(n) ==
    IF n < 0 THEN <<"-">> \o IntText(0 - n)
    ELSE IF n < 10 THEN <<Digits[n + 1]>>
    ELSE IntText(n \div 10) \o <<Digits[(n % 10) + 1]>>

(* Column labels and texts the code names *)

scId == <<"s", "c", "I", "d">>
scid == <<"s", "c", "i", "d">>
ttm_pe == <<"t", "t", "m", "_", "p", "e">>
sector_pe == <<"s", "e", "c", "t", "o", "r", "_", "p", "e">>
pe_vs_sector_pct == <<"p", "e", "_", "v", "s", "_", "s", "e", "c", "t", "o", "r", "_", "p", "c", "t">>
pe_vs_sector_flag == <<"p", "e", "_", "v", "s", "_", "s", "e", "c", "t", "o", "r", "_", "f", "l", "a", "g">>
analyst_count == <<"a", "n", "a", "l", "y", "s", "t", "_", "c", "o", "u", "n", "t">>
analyst_final_rating == <<"a", "n", "a", "l", "y", "s", "t", "_", "f", "i", "n", "a", "l", "_", "r", "a", "t", "i", "n", "g">>
analyst_confidence_score == <<"a", "n", "a", "l", "y", "s", "t", "_", "c", "o", "n", "f", "i", "d", "e", "n", "c", "e", "_", "s", "c", "o", "r", "e">>
analyst_confidence == <<"a", "n", "a", "l", "y", "s", "t", "_", "c", "o", "n", "f", "i", "d", "e", "n", "c", "e">>

\* const.NUMERIC_COLUMNS
NUMERIC_COLUMNS ==
    <<<<"m", "_", "s", "c", "o", "r", "e">>, <<"c", "o", "s", "t">>, <<"t", "t", "m", "_", "e", "p", "s">>, ttm_pe, <<"p", "/", "b">>, sector_pe, analyst_count>>

(* Cells.  A value of a DataFrame cell: a number, a text, NaN or None.     *)
(* Numbers are integers; a column of numbers with a NaN is a float column. *)

NaN == [k |-> "nan", n |-> 0, s |-> <<>>]
PyNone == [k |-> "None", n |-> 0, s |-> <<>>]
Num(n) == [k |-> "num", n |-> n, s |-> <<>>]
Str(s) == [k |-> "str", n |-> 0, s |-> s]

\* a dict or a list with n entries, written as the JSON text s
Dict(n, s) == [k |-> "dict", n |-> n, s |-> s]
List(n, s) == [k |-> "list", n |-> n, s |-> s]

\* the exception that left a function applied to the cell
ValueError == [k |-> "ValueError", n |-> 0, s |-> <<>>]

\* pd.notnull on a cell
notnull(c) == c.k \notin {"nan", "None"}

(* DataFrames: the number of rows and the columns in order, each a label   *)
(* and its cells.  The index is 0..n-1 as read_csv makes it.               *)

Column(name, cells) == [name |-> name, cells |-> cells]
DataFrame(n, cols) == [n |-> n, cols |-> cols]

\* name in df.columns
HasColumn(df, name) == \E i \in 1..Len(df.cols) : df.cols[i].name = name

\* df[name], for a label that is in df.columns once
Cells(df, name) ==
    df.cols[CHOOSE i \in 1..Len(df.cols) : df.cols[i].name = name].cells

\* df[name] = cells: the column is replaced where it stands, or appended
SetColumn(df, name, cells) ==
    IF HasColumn(df, name)
    THEN [df EXCEPT !.cols = [i \in 1..Len(df.cols) |->
                                IF df.cols[i].name = name
                                THEN Column(name, cells) ELSE df.cols[i]]]
    ELSE [df EXCEPT !.cols = Append(@, Column(name, cells))]

\* the dtype pandas gives a column of these cells
IsFloatColumn(cells) ==
    /\ \A i \in 1..Len(cells) : cells[i].k \in {"num", "nan"}
    /\ \E i \in 1..Len(cells) : cells[i].k = "nan"
IsIntColumn(cells) == \A i \in 1..Len(cells) : cells[i].k = "num"

\* pd.read_csv on the texts of one column: a column of numerals and empty
\* fields is numeric, any other column holds the texts; an empty field is NaN
read_csv_column(texts) ==
    IF \A i \in 1..Len(texts) : texts[i] = <<>> \/ IsNumeral(texts[i])
    THEN [i \in 1..Len(texts) |->
            IF texts[i] = <<>> THEN NaN ELSE Num(ParseInt(texts[i]))]
    ELSE [i \in 1..Len(texts) |->
            IF texts[i] = <<>> THEN NaN ELSE Str(texts[i])]

read_csv(csv) ==
    DataFrame(csv.n, [i \in 1..Len(csv.cols) |->
                        Column(csv.cols[i].name, read_csv_column(csv.cols[i].cells))])

(* DataSourceBase.process_data, step by step.  pandas is the behaviour of  *)
(* the installed pandas in df.where(pd.notnull(df), None): "object" turns  *)
(* the NaN of a float column into None, "float" leaves it NaN.             *)

Pandas == {"object", "float"}

\* df.columns = [self._to_snake_case(col) for col in df.columns]
RenameColumns(df) ==
    [df EXCEPT !.cols = [i \in 1..Len(df.cols) |->
                            Column(_to_snake_case(df.cols[i].name), df.cols[i].cells)]]

\* mutant: the first of the columns of one name is kept
DropDuplicateColumnsFirst(df) ==
    LET keep(i) == \A j \in 1..(i - 1) : df.cols[j].name # df.cols[i].name
        Pick[i \in 0..Len(df.cols)] ==
            IF i = 0 THEN <<>>
            ELSE IF keep(i) THEN Append(Pick[i - 1], df.cols[i]) ELSE Pick[i - 1]
    IN [df EXCEPT !.cols = Pick[Len(df.cols)]]

\* df.loc[:, ~df.columns.duplicated(keep='last')]
DropDuplicateColumns(df) ==
    LET keep(i) == \A j \in (i + 1)..Len(df.cols) : df.cols[j].name # df.cols[i].name
        Pick[i \in 0..Len(df.cols)] ==
            IF i = 0 THEN <<>>
            ELSE IF keep(i) THEN Append(Pick[i - 1], df.cols[i]) ELSE Pick[i - 1]
    IN [df EXCEPT !.cols = Pick[Len(df.cols)]]

\* str(x) of a cell value
CellText(c) ==
    CASE c.k = "str" -> c.s
      [] c.k = "num" -> IntText(c.n)
      [] c.k = "nan" -> <<"n", "a", "n">>
      [] c.k = "None" -> <<"N", "o", "n", "e">>

\* mutant: a missing cell stays missing
astype_str_keepna(cells) ==
    [i \in 1..Len(cells) |->
        IF notnull(cells[i]) THEN Str(CellText(cells[i])) ELSE cells[i]]

\* Series.astype(str): the numbers of a float column print with ".0"
astype_str(cells) ==
    [i \in 1..Len(cells) |->
        IF IsFloatColumn(cells) /\ cells[i].k = "num"
        THEN Str(IntText(cells[i].n) \o <<".", "0">>)
        ELSE Str(CellText(cells[i]))]

\* df.index.astype(str)
index_astype_str(df) == [i \in 1..df.n |-> Str(IntText(i - 1))]

\* lines 102-109: ensure the ID column exists
EnsureIdColumn(df, id_column) ==
    Then(_to_snake_case(id_column), LAMBDA id_col :
        IF HasColumn(df, id_col)
        THEN Then(Cells(df, id_col), LAMBDA ids : SetColumn(df, scId, astype_str(ids)))
        ELSE IF HasColumn(df, scid)
        THEN Then(Cells(df, scid), LAMBDA ids : SetColumn(df, scId, astype_str(ids)))
        ELSE IF ~HasColumn(df, scId) THEN SetColumn(df, scId, index_astype_str(df))
        ELSE df)

\* mutant: a text that is no number is kept
to_numeric_keep(c) ==
    CASE c.k = "num" -> c
      [] c.k = "str" -> IF IsNumeral(c.s) THEN Num(ParseInt(c.s)) ELSE c
      [] OTHER -> NaN

\* pd.to_numeric(errors='coerce') on one cell
to_numeric(c) ==
    CASE c.k = "num" -> c
      [] c.k = "str" -> IF IsNumeral(c.s) THEN Num(ParseInt(c.s)) ELSE NaN
      [] OTHER -> NaN

\* lines 111-115: convert the declared numeric columns that are present
RECURSIVE ConvertNumeric(_, _)
ConvertNumeric(df, numeric_columns) ==
    IF numeric_columns = <<>> THEN df
    ELSE Then(_to_snake_case(Head(numeric_columns)), LAMBDA snake_col :
            Then(IF HasColumn(df, snake_col)
                 THEN SetColumn(df, snake_col,
                                [i \in 1..df.n |-> to_numeric(Cells(df, snake_col)[i])])
                 ELSE df,
                 LAMBDA next : ConvertNumeric(next, Tail(numeric_columns))))

\* const.JSON_COLUMNS
JSON_COLUMNS ==
    <<<<"f", "i", "n", "a", "n", "c", "i", "a", "l", "_", "m", "e", "t", "r", "i", "c", "s">>, <<"t", "e", "c", "h", "n", "i", "c", "a", "l", "_", "i", "n", "d", "i", "c", "a", "t", "o", "r", "s">>,
      <<"s", "e", "a", "s", "o", "n", "a", "l", "i", "t", "y", "_", "a", "n", "a", "l", "y", "s", "i", "s">>, <<"a", "n", "a", "l", "y", "s", "t", "_", "r", "a", "t", "i", "n", "g", "s">>>>

\* json.loads(s) on the texts of this model: {} or {"a":1}, a list of
\* digits, a numeral, null; every other text is a JSONDecodeError
IsJsonDict(s) ==
    \/ s = <<"{", "}">>
    \/ /\ Len(s) = 7
       /\ s[1] = "{" /\ s[2] = "\"" /\ IsLower(s[3]) /\ s[4] = "\""
       /\ s[5] = ":" /\ IsDigit(s[6]) /\ s[7] = "}"

IsJsonList(s) ==
    /\ Len(s) >= 2 /\ s[1] = "[" /\ s[Len(s)] = "]"
    /\ Len(s) = 2 \/ Len(s) % 2 = 1
    /\ \A j \in 2..(Len(s) - 1) : IF j % 2 = 0 THEN IsDigit(s[j]) ELSE s[j] = ","

json_loads(s) ==
    IF IsJsonDict(s)
        THEN [ok |-> TRUE, value |-> Dict(IF Len(s) = 2 THEN 0 ELSE 1, s)]
    ELSE IF IsJsonList(s)
        THEN [ok |-> TRUE, value |-> List((Len(s) - 1) \div 2, s)]
    ELSE IF s # <<>> /\ IsNumeral(s) /\ s[1] # "-"
        THEN [ok |-> TRUE, value |-> Num(ParseInt(s))]
    ELSE IF s = <<"n", "u", "l", "l">>
        THEN [ok |-> TRUE, value |-> PyNone]
    ELSE [ok |-> FALSE, value |-> PyNone]

\* bool(x) of a cell value; nan is a non-zero float
Truthy(c) ==
    CASE c.k = "None" -> FALSE
      [] c.k = "str" -> c.s # <<>>
      [] c.k = "num" -> c.n # 0
      [] c.k \in {"dict", "list"} -> c.n # 0
      [] OTHER -> TRUE

\* DataSourceBase._parse_json_safe.  pd.isna of a list is an array, and
\* the truth value of an array of more than one element is a ValueError,
\* raised outside the try.
_parse_json_safe(c) ==
    IF ~Truthy(c) THEN PyNone
    ELSE IF c.k = "list" /\ c.n > 1 THEN ValueError
    ELSE IF c.k = "nan" THEN PyNone
    ELSE IF c.k \in {"dict", "list"} THEN c
    ELSE IF c.k = "str" /\ json_loads(c.s).ok THEN json_loads(c.s).value
    ELSE PyNone

\* lines 117-121: parse the declared JSON columns that are present
RECURSIVE ParseJsonColumns(_, _)
ParseJsonColumns(df, json_columns) ==
    IF json_columns = <<>> THEN df
    ELSE Then(_to_snake_case(Head(json_columns)), LAMBDA snake_col :
            Then(IF HasColumn(df, snake_col)
                 THEN SetColumn(df, snake_col,
                                [i \in 1..df.n |-> _parse_json_safe(Cells(df, snake_col)[i])])
                 ELSE df,
                 LAMBDA next : ParseJsonColumns(next, Tail(json_columns))))

\* an exception left df.apply
Raised(df) ==
    \E i \in 1..Len(df.cols) : \E r \in 1..df.n : df.cols[i].cells[r] = ValueError

\* line 124: df.where(pd.notnull(df), None)
WhereNotnull(df, pandas) ==
    [df EXCEPT !.cols = [i \in 1..Len(df.cols) |->
        IF pandas = "float" /\ IsFloatColumn(df.cols[i].cells)
        THEN df.cols[i]
        ELSE Column(df.cols[i].name,
                    [r \in 1..df.n |-> IF notnull(df.cols[i].cells[r])
                                       THEN df.cols[i].cells[r] ELSE PyNone])]]

(* The processors of processors.py *)

PE_CHEAP_PCT == 20
PE_DELTA_PCT == 20
ANALYST_COUNT_CAP == 10
BucketHigh == 70
BucketMedium == 40
DefaultWeight == 5

\* const.ANALYST_SCORE_WEIGHTS, in tenths
ANALYST_SCORE_WEIGHTS ==
    {<<<<"S", "t", "r", "o", "n", "g", " ", "B", "u", "y">>, 10>>, <<<<"B", "u", "y">>, 8>>, <<<<"O", "u", "t", "p", "e", "r", "f", "o", "r", "m">>, 8>>,
     <<<<"H", "o", "l", "d">>, 5>>, <<<<"U", "n", "d", "e", "r", "p", "e", "r", "f", "o", "r", "m">>, 2>>, <<<<"S", "e", "l", "l">>, 0>>}

\* the exact quotient a / b of integers, b # 0
Quot(a, b) == IF b > 0 THEN a \div b ELSE (0 - a) \div (0 - b)

\* row.get(name) in df.apply(..., axis=1)
RowGet(df, name, r) == IF HasColumn(df, name) THEN Cells(df, name)[r] ELSE PyNone

\* the Series pandas builds from the values a function returned: None
\* becomes NaN unless every value is None
InferSeries(cells) ==
    IF \A i \in 1..Len(cells) : cells[i] = PyNone THEN cells
    ELSE [i \in 1..Len(cells) |-> IF cells[i] = PyNone THEN NaN ELSE cells[i]]

\* compute_pe_vs_sector._compute_pct; ((ttm - sector) / sector) * 100.0 is
\* computed as the exact quotient (ttm - sector) * 100 / sector
_compute_pct(ttm, sector) ==
    IF ttm = PyNone \/ sector = PyNone THEN PyNone
    ELSE IF sector = Num(0) THEN PyNone
    ELSE IF ttm.k = "str" \/ sector.k = "str" THEN PyNone
    ELSE IF ttm.k = "nan" \/ sector.k = "nan" THEN NaN
    ELSE Num(Quot((ttm.n - sector.n) * 100, sector.n))

\* mutant: the cheap boundary is exclusive
_pe_flag_strict(pct) ==
    IF pct = PyNone THEN Str(<<"U", "n", "k", "n", "o", "w", "n">>)
    ELSE IF pct.k = "num" /\ pct.n < 0 - PE_CHEAP_PCT THEN Str(<<"C", "h", "e", "a", "p">>)
    ELSE IF pct.k = "num" /\ pct.n >= PE_DELTA_PCT THEN Str(<<"E", "x", "p", "e", "n", "s", "i", "v", "e">>)
    ELSE Str(<<"F", "a", "i", "r">>)

\* compute_pe_vs_sector._pe_flag; every comparison with NaN is false
_pe_flag(pct) ==
    IF pct = PyNone THEN Str(<<"U", "n", "k", "n", "o", "w", "n">>)
    ELSE IF pct.k = "num" /\ pct.n <= 0 - (IF PE_CHEAP_PCT < 0 THEN 0 - PE_CHEAP_PCT ELSE PE_CHEAP_PCT)
         THEN Str(<<"C", "h", "e", "a", "p">>)
    ELSE IF pct.k = "num" /\ pct.n >= PE_DELTA_PCT THEN Str(<<"E", "x", "p", "e", "n", "s", "i", "v", "e">>)
    ELSE Str(<<"F", "a", "i", "r">>)

\* mutant: the new percentage is added to the one the table already has
pe_vs_sector_stages_accumulate(df) ==
    Then([r \in 1..df.n |-> _compute_pct(RowGet(df, ttm_pe, r), RowGet(df, sector_pe, r))],
         LAMBDA values :
            Then(InferSeries([r \in 1..df.n |->
                    IF values[r].k = "num" /\ RowGet(df, pe_vs_sector_pct, r).k = "num"
                    THEN Num(values[r].n + RowGet(df, pe_vs_sector_pct, r).n)
                    ELSE values[r]]),
                 LAMBDA pct :
                    Then(SetColumn(df, pe_vs_sector_pct, pct), LAMBDA df1 :
                        <<df, df1,
                          SetColumn(df1, pe_vs_sector_flag,
                                    [r \in 1..df.n |-> _pe_flag(pct[r])])>>)))

\* compute_pe_vs_sector: the copy, the copy with pe_vs_sector_pct, the
\* copy with both columns
pe_vs_sector_stages(df) ==
    Then([r \in 1..df.n |-> _compute_pct(RowGet(df, ttm_pe, r), RowGet(df, sector_pe, r))],
         LAMBDA values :
            Then(InferSeries(values), LAMBDA pct :
                Then(SetColumn(df, pe_vs_sector_pct, pct), LAMBDA df1 :
                    <<df, df1,
                      SetColumn(df1, pe_vs_sector_flag, [r \in 1..df.n |-> _pe_flag(pct[r])])>>)))

compute_pe_vs_sector(df) == pe_vs_sector_stages(df)[3]

\* weights.get(rating_key, weights.get(rating_key.title(), 0.5)), in tenths
Weight(rating_key) ==
    LET at(key) == {w \in ANALYST_SCORE_WEIGHTS : w[1] = key}
    IN IF at(rating_key) # {} THEN (CHOOSE w \in at(rating_key) : TRUE)[2]
       ELSE IF at(title(rating_key)) # {} THEN (CHOOSE w \in at(title(rating_key)) : TRUE)[2]
       ELSE DefaultWeight

\* compute_analyst_confidence._compute_score; weight * (capped / cap) * 100
\* is computed as the exact quotient tenths * capped * 10 / cap
_compute_score(count, rating) ==
    IF count = PyNone \/ count.k = "nan" THEN PyNone
    ELSE IF count.k = "str" /\ ~IsNumeral(count.s) THEN PyNone
    ELSE LET count_val == IF count.k = "str" THEN ParseInt(count.s) ELSE count.n
             rating_key == IF rating = PyNone THEN <<>> ELSE strip(CellText(rating))
             capped == IF count_val < ANALYST_COUNT_CAP THEN count_val ELSE ANALYST_COUNT_CAP
         IN Num(Quot(Weight(rating_key) * capped * 10, ANALYST_COUNT_CAP))

\* compute_analyst_confidence._bucket; every comparison with NaN is false
_bucket(score) ==
    IF score = PyNone THEN Str(<<"U", "n", "k", "n", "o", "w", "n">>)
    ELSE IF score.k = "num" /\ score.n >= BucketHigh THEN Str(<<"H", "i", "g", "h">>)
    ELSE IF score.k = "num" /\ score.n >= BucketMedium THEN Str(<<"M", "e", "d", "i", "u", "m">>)
    ELSE Str(<<"L", "o", "w">>)

analyst_confidence_stages(df) ==
    Then([r \in 1..df.n |-> _compute_score(RowGet(df, analyst_count, r),
                                            RowGet(df, analyst_final_rating, r))],
         LAMBDA values :
            Then(InferSeries(values), LAMBDA score :
                Then(SetColumn(df, analyst_confidence_score, score), LAMBDA df1 :
                    <<df, df1,
                      SetColumn(df1, analyst_confidence, [r \in 1..df.n |-> _bucket(score[r])])>>)))

compute_analyst_confidence(df) == analyst_confidence_stages(df)[3]

\* A configured processor: the function, and where a run of it raises (an
\* exception from inside pandas): not at all, before it has written a
\* column, or between its two columns.
Processor(fn, raises) == [fn |-> fn, raises |-> raises]

Raises == {"no", "before", "between"}

\* where the two processors of a run raise
RaisePairs ==
    {<<"no", "no">>, <<"before", "no">>, <<"between", "no">>,
     <<"no", "before">>, <<"no", "between">>, <<"between", "between">>}

STOCK_ANALYSIS_PROCESSORS ==
    <<Processor("compute_pe_vs_sector", "no"), Processor("compute_analyst_confidence", "no")>>

NO_PROCESSORS == <<>>

\* processor(df): the frame the processor has built when it returns or
\* raises, and whether it raised
RunProcessor(p, df) ==
    Then(IF p.fn = "compute_pe_vs_sector" THEN pe_vs_sector_stages(df)
         ELSE analyst_confidence_stages(df),
         LAMBDA stages :
            CASE p.raises = "no" -> [df |-> stages[3], raised |-> FALSE]
              [] p.raises = "before" -> [df |-> stages[1], raised |-> TRUE]
              [] p.raises = "between" -> [df |-> stages[2], raised |-> TRUE])

\* mutant: the frame of a processor that raised is kept
ApplyProcessorKeep(df, p) == RunProcessor(p, df).df

\* lines 128-133: try: df = processor(df) / except Exception: log
ApplyProcessor(df, p) ==
    Then(RunProcessor(p, df), LAMBDA run : IF run.raised THEN df ELSE run.df)

RECURSIVE ApplyProcessors(_, _)
ApplyProcessors(df, processors) ==
    IF processors = <<>> THEN df
    ELSE Then(ApplyProcessor(df, Head(processors)),
              LAMBDA next : ApplyProcessors(next, Tail(processors)))

\* the fields of DataSourceConfig that process_data reads
ProcessConfig(id_column, numeric_columns, json_columns, processors) ==
    [id_column |-> id_column, numeric_columns |-> numeric_columns,
     json_columns |-> json_columns, derived_column_processors |-> processors]

\* lines 94-124: the normalized table; when _parse_json_safe raised, the
\* table in which the exception arose
Normalize(cfg, df, pandas) ==
    Then(RenameColumns(df), LAMBDA renamed :
      Then(DropDuplicateColumns(renamed), LAMBDA unique :
        Then(EnsureIdColumn(unique, cfg.id_column), LAMBDA with_id :
          Then(ConvertNumeric(with_id, cfg.numeric_columns), LAMBDA converted :
            Then(ParseJsonColumns(converted, cfg.json_columns), LAMBDA parsed :
              IF Raised(parsed) THEN parsed ELSE WhereNotnull(parsed, pandas))))))

\* DataSourceBase.process_data; an exception of the normalization leaves
\* process_data, one of a processor does not
DataSourceBase_process_data(cfg, df, pandas) ==
    Then(Normalize(cfg, df, pandas),
         LAMBDA normalized :
            IF Raised(normalized) THEN normalized
            ELSE ApplyProcessors(normalized, cfg.derived_column_processors))

(* The harness around process_data: a sheet is read, process_data is       *)
(* called on it, and its output is normalized once more.                   *)

NoFrame == DataFrame(0, <<>>)

\* df.empty: an axis of length 0
Empty(df) == df.n = 0 \/ Len(df.cols) = 0

\* google_sheets.py lines 54-82 on frames: line 66 returns what read_csv
\* parsed, every other return is pd.DataFrame()
FetchedFrame(f, sheet) == IF f.msg = "none" THEN sheet ELSE NoFrame

\* the record f is one that fetch_data can end with when the sheet at the
\* endpoint reads as sheet: a parsed table is that sheet
Served(f, sheet) ==
    \A i \in 1..Len(f.seen) :
        /\ f.seen[i] = "ok" => ~Empty(sheet)
        /\ f.seen[i] = "empty" => Empty(sheet)

\* mutant: the empty table is processed like any other
DataSourceBase_load_data_unguarded(cfg, df, pandas) ==
    DataSourceBase_process_data(cfg, df, pandas)

\* base.py lines 78-81, df being what fetch_data returned
DataSourceBase_load_data(cfg, df, pandas) ==
    IF Empty(df) THEN df ELSE DataSourceBase_process_data(cfg, df, pandas)

\* the processors that load_data invokes, in order: those of lines 127-129
\* when process_data is called and reaches them
Invoked(cfg, df, pandas) ==
    IF Empty(df) \/ Raised(Normalize(cfg, df, pandas)) THEN <<>>
    ELSE [i \in 1..Len(cfg.derived_column_processors) |->
            cfg.derived_column_processors[i].fn]

NoTable ==
    [phase |-> "none", pandas |-> "object",
     cfg |-> ProcessConfig(scId, <<>>, <<>>, NO_PROCESSORS),
     df |-> NoFrame,       \* what pd.read_csv returned
     norm |-> NoFrame,     \* the table before the processors ran
     out |-> NoFrame,      \* what process_data returned
     again |-> NoFrame,    \* the normalization of out
     twice |-> NoFrame,    \* the processors applied to out
     fetched |-> NoFrame,  \* what fetch_data returned to load_data
     invoked |-> <<>>,     \* the processors load_data invoked
     msg |-> "none"]       \* the message fetch_data showed

TabStart == tlog = NoTable

\* the texts of the cells of the sheets: an empty field, numerals, words
IdTexts == {<<>>, <<"a">>, <<"7">>}
CostTexts == {<<>>, <<"8">>, <<"x">>}
TtmTexts == {<<>>, <<"8">>, <<"1", "1">>, <<"1", "2">>}
SectorTexts == {<<>>, <<"0">>, <<"1", "0">>}

\* the label of the identifier column of a sheet, if it has one
IdLabels == {scId, scid, <<>>}

\* sheets with an identifier column (or none) and a declared numeric column
IdSheets ==
    UNION {{DataFrame(n, (IF h = <<>> THEN <<>> ELSE <<Column(h, ids)>>)
                         \o <<Column(<<"C", "o", "s", "t">>, costs)>>) :
               h \in IdLabels, ids \in [1..n -> IdTexts], costs \in [1..n -> CostTexts]} :
           n \in 1..MaxRows}

\* sheets with the two multiples, with or without a column that has the
\* label of a derived column
PeSheets ==
    UNION {{DataFrame(n, <<Column(<<"T", "T", "M", " ", "P", "E">>, ttm), Column(<<"S", "e", "c", "t", "o", "r", " ", "P", "E">>, sec)>>
                         \o (IF own THEN <<Column(pe_vs_sector_pct, [r \in 1..n |-> <<"7">>])>>
                             ELSE <<>>)) :
               ttm \in [1..n -> TtmTexts], sec \in [1..n -> SectorTexts], own \in BOOLEAN} :
           n \in 1..MaxRows}

\* sheets with the columns both processors read.  The first multiple is
\* missing or not; the counts are missing, below and above the cap; the
\* ratings are missing, a key of the weights, and one in another case.
CountTexts == {<<>>, <<"5">>, <<"7">>, <<"1", "2">>}
RatingTexts == {<<>>, <<"B", "u", "y">>, <<"s", "t", "r", "o", "n", "g", " ", "b", "u", "y">>}

ChainSheets ==
    UNION {{DataFrame(n, <<Column(<<"T", "T", "M", " ", "P", "E">>, [r \in 1..n |-> IF gap /\ r = 1 THEN <<>> ELSE <<"8">>]),
                           Column(<<"S", "e", "c", "t", "o", "r", " ", "P", "E">>, [r \in 1..n |-> <<"1", "0">>]),
                           Column(analyst_count, counts),
                           Column(analyst_final_rating, ratings)>>) :
               gap \in BOOLEAN, counts \in [1..n -> CountTexts],
               ratings \in [1..n -> RatingTexts]} :
           n \in 1..MaxRows}

\* the sheets a load can find at the endpoint: the columns of the sheets
\* above in zero or more rows, the rows of a sheet being alike but for the
\* first multiple
LoadSheets ==
    {DataFrame(n, <<Column(<<"T", "T", "M", " ", "P", "E">>, [r \in 1..n |-> IF gap /\ r = 1 THEN <<>> ELSE <<"8">>]),
                    Column(<<"S", "e", "c", "t", "o", "r", " ", "P", "E">>, [r \in 1..n |-> <<"1", "0">>]),
                    Column(analyst_count, [r \in 1..n |-> count]),
                    Column(analyst_final_rating, [r \in 1..n |-> rating])>>) :
        n \in 0..MaxRows, gap \in BOOLEAN, count \in CountTexts, rating \in RatingTexts}

\* labels of one logical column in several spellings
CompanyNameLabels == {<<"C", "o", "m", "p", "a", "n", "y", "N", "a", "m", "e">>, <<"C", "o", "m", "p", "a", "n", "y", " ", "N", "a", "m", "e">>, <<"c", "o", "m", "p", "a", "n", "y", "_", "n", "a", "m", "e">>, <<"c", "o", "m", "p", "a", "n", "y", "N", "a", "m", "e">>}
NameTexts == {<<"a">>, <<"b">>}

\* sheets with two columns whose labels are spellings of one name
VariantSheets ==
    UNION {{DataFrame(n, <<Column(h[1], c1), Column(h[2], c2)>>) :
               h \in {x \in CompanyNameLabels \X CompanyNameLabels : x[1] # x[2]},
               c1 \in [1..n -> NameTexts], c2 \in [1..n -> NameTexts]} :
           n \in 1..MaxRows}

\* the configured identifier columns: the default, and that of scanx_trade
IdColumns == {scId, <<"S", "i", "d">>}

\* sheets with any of the columns an identifier can be read from; the
\* cells of a column tell which column it is
IdChoiceSheets ==
    UNION {{DataFrame(n, <<Column(<<"N", "a", "m", "e">>, [r \in 1..n |-> <<"a">>])>>
                         \o (IF sid THEN <<Column(<<"S", "i", "d">>, [r \in 1..n |-> <<"s">> \o IntText(r)])>> ELSE <<>>)
                         \o (IF lower_scid THEN <<Column(scid, [r \in 1..n |-> <<"c">> \o IntText(r)])>> ELSE <<>>)
                         \o (IF sc_id THEN <<Column(scId, [r \in 1..n |-> <<"i">> \o IntText(r)])>> ELSE <<>>)) :
               sid \in BOOLEAN, lower_scid \in BOOLEAN, sc_id \in BOOLEAN} :
           n \in 1..MaxRows}

\* the cells of a declared JSON column in the table a source hands to
\* process_data: missing, texts (empty, JSON, not JSON), and dicts and
\* lists (of a source that is not a sheet, or of an earlier normalization)
JsonCells ==
    {NaN, Str(<<>>), Str(<<"{", "}">>), Str(<<"{", "\"", "a", "\"", ":", "1", "}">>), Str(<<"[", "1", ",", "2", "]">>), Str(<<"{">>), Str(<<"x">>),
     Dict(0, <<"{", "}">>), Dict(1, <<"{", "\"", "a", "\"", ":", "1", "}">>), List(0, <<"[", "]">>), List(1, <<"[", "1", "]">>), List(2, <<"[", "1", ",", "2", "]">>)}

JsonFrames ==
    UNION {{DataFrame(n, <<Column(<<"f", "i", "n", "a", "n", "c", "i", "a", "l", "_", "m", "e", "t", "r", "i", "c", "s">>, cells)>>) :
               cells \in [1..n -> JsonCells]} :
           n \in 1..MaxRows}

\* the call process_data(df) of a source with configuration cfg
ProcessData ==
    /\ tlog.phase = "raw"
    /\ \E out \in {DataSourceBase_process_data(tlog.cfg, tlog.df, tlog.pandas)},
          norm \in {Normalize(tlog.cfg, tlog.df, tlog.pandas)} :
            tlog' = [tlog EXCEPT !.phase = IF Raised(out) THEN "raised" ELSE "done",
                                 !.norm = norm, !.out = out]
    /\ UNCHANGED <<config, cache, now, sess, probe, flog, regVars>>

\* the output is normalized a second time
Renormalize ==
    /\ tlog.phase = "done"
    /\ \E again \in {Normalize(tlog.cfg, tlog.out, tlog.pandas)} :
            tlog' = [tlog EXCEPT !.phase = IF Raised(again) THEN "raised" ELSE "again",
                                 !.again = again]
    /\ UNCHANGED <<config, cache, now, sess, probe, flog, regVars>>

\* the processor chain of the configuration is applied to the table that
\* process_data returned
Reapply ==
    /\ tlog.phase = "done"
    /\ \E twice \in {ApplyProcessors(tlog.out, tlog.cfg.derived_column_processors)} :
            tlog' = [tlog EXCEPT !.phase = "twice", !.twice = twice]
    /\ UNCHANGED <<config, cache, now, sess, probe, flog, regVars>>

\* source.load_data(): fetch_data ends with the record f and returns a
\* frame, which load_data returns as it is or hands to process_data
LoadData(s, f) ==
    /\ tlog.phase = "raw"
    /\ Served(f, tlog.df)
    /\ \E fetched \in {FetchedFrame(f, tlog.df)} :
         \E out \in {DataSourceBase_load_data(tlog.cfg, fetched, tlog.pandas)},
            invoked \in {Invoked(tlog.cfg, fetched, tlog.pandas)} :
              tlog' = [tlog EXCEPT !.phase = "loaded", !.fetched = fetched,
                                   !.out = out, !.invoked = invoked, !.msg = f.msg]
    /\ UNCHANGED <<config, cache, now, sess, probe, flog, regVars>>

----------------------------------------------------------------------------
(* Specifications *)

InitRest ==
    /\ cache = [s \in Sources |-> NoEntry]
    /\ now = 0
    /\ sess = [p \in Sessions |-> Idle]
    /\ probe = NoProbe
    /\ flog = [p \in Sessions |-> FetchStart]

RegStart ==
    /\ registry = [n \in Names |-> None]
    /\ hist = <<>>
    /\ rlog = NoCall

Init ==
    /\ \E u \in EnvUrls :
         config = [s \in Sources |->
                     create_google_sheets_source(u, DefaultMaxRetries, SourceTTL(s))]
         /\ env = u
    /\ InitRest /\ RegStart /\ TabStart

Next ==
    \/ \E p \in Sessions, s \in Sources, watch \in BOOLEAN : Call(p, s, watch)
    \/ \E p \in Sessions : \E f \in Fetches(config[sess[p].src]) : Load(p, f)
    \/ \E p \in Sessions, s \in Sources, watch \in BOOLEAN : ClearSourceCache(p, s, watch)
    \/ Tick

Spec == Init /\ [][Next]_vars

\* the cache while the harness watches the call that follows an
\* invalidation, for the name cleared or for another one
NextClear ==
    \/ \E p \in Sessions, s \in Sources : Call(p, s, FALSE)
    \/ \E p \in Sessions : \E f \in Fetches(config[sess[p].src]) : Load(p, f)
    \/ \E p \in Sessions, a \in Sources, b \in Sources : ClearWatch(p, a, b)
    \/ Tick

SpecClear == Init /\ [][NextClear]_vars

\* the cache while sources are registered anew under their names; every
\* call is watched
NextKey ==
    \/ \E p \in Sessions, s \in Sources : Call(p, s, TRUE)
    \/ \E p \in Sessions : \E f \in Fetches(config[sess[p].src]) : Load(p, f)
    \/ \E p \in Sessions, s \in Sources : ClearSourceCache(p, s, FALSE)
    \/ \E s \in Sources, u \in EnvUrls : Reregister(s, u)
    \/ Tick

SpecKey == Init /\ [][NextKey]_vars

\* fetch_data alone, for every sheet_url and max_retries of the bounds
InitFetch ==
    /\ \E u \in SheetUrls, n \in 0..MaxRetriesCfg :
         config = [s \in Sources |-> create_google_sheets_source(u, n, DefaultTTL)]
    /\ env = <<>>
    /\ InitRest /\ RegStart /\ TabStart

NextFetch ==
    \E p \in Sessions, s \in Sources :
        \E f \in FetchRuns(config[s]) : FetchData(p, s, f)

SpecFetch == InitFetch /\ [][NextFetch]_vars

\* fetch_data alone, max_retries being any integer a configuration can
\* carry: negative, zero or positive
InitFetchAny ==
    /\ \E u \in SheetUrls, n \in -1..MaxRetriesCfg :
         config = [s \in Sources |-> create_google_sheets_source(u, n, DefaultTTL)]
    /\ env = <<>>
    /\ InitRest /\ RegStart /\ TabStart

SpecFetchAny == InitFetchAny /\ [][NextFetch]_vars

\* the registry alone: the process starts with _sources empty and
\* STOCK_GOOGLE_SHEET_URL unset or set
InitReg ==
    /\ env \in {<<>>} \cup EnvUrls
    /\ config = [s \in Sources |->
                  create_google_sheets_source(env, DefaultMaxRetries, SourceTTL(s))]
    /\ InitRest /\ RegStart /\ TabStart

NextReg ==
    \/ \E n \in RegNames, s \in SomeSources : Register(n, s)
    \/ \E c \in SomeConfigs : Create(c)
    \/ RegistryClear
    \/ InitDataSources
    \/ \E n \in Names : EnsureDataSource(n)

SpecReg == InitReg /\ [][NextReg]_vars

\* process_data alone, on the sheets of the bounds; the processors of the
\* valuation sheets raise or not
InitTab ==
    /\ \E pandas \in Pandas :
         \/ \E csv \in IdSheets :
               tlog = [NoTable EXCEPT
                         !.phase = "raw", !.pandas = pandas,
                         !.cfg = ProcessConfig(scId, NUMERIC_COLUMNS, JSON_COLUMNS, STOCK_ANALYSIS_PROCESSORS),
                         !.df = read_csv(csv)]
         \/ \E csv \in PeSheets, r \in RaisePairs :
               tlog = [NoTable EXCEPT
                         !.phase = "raw", !.pandas = pandas,
                         !.cfg = ProcessConfig(scId, NUMERIC_COLUMNS, JSON_COLUMNS,
                                     <<Processor("compute_pe_vs_sector", r[1]),
                                       Processor("compute_analyst_confidence", r[2])>>),
                         !.df = read_csv(csv)]
    /\ env = <<>>
    /\ config = [s \in Sources |->
                  create_google_sheets_source(env, DefaultMaxRetries, SourceTTL(s))]
    /\ InitRest /\ RegStart

NextTab == ProcessData \/ Renormalize

SpecTab == InitTab /\ [][NextTab]_vars

\* the processor chain on the sheets that have the columns it reads
InitChain ==
    /\ \E pandas \in Pandas, csv \in ChainSheets :
           tlog = [NoTable EXCEPT
                     !.phase = "raw", !.pandas = pandas,
                     !.cfg = ProcessConfig(scId, NUMERIC_COLUMNS, JSON_COLUMNS,
                                           STOCK_ANALYSIS_PROCESSORS),
                     !.df = read_csv(csv)]
    /\ env = <<>>
    /\ config = [s \in Sources |->
                  create_google_sheets_source(env, DefaultMaxRetries, SourceTTL(s))]
    /\ InitRest /\ RegStart

NextChain == ProcessData \/ Reapply

\* load_data of the stock analysis source: the endpoint is configured or
\* not, holds a sheet with or without rows, and answers or fails
InitLoad ==
    /\ \E pandas \in Pandas, csv \in LoadSheets :
           tlog = [NoTable EXCEPT
                     !.phase = "raw", !.pandas = pandas,
                     !.cfg = ProcessConfig(scId, NUMERIC_COLUMNS, JSON_COLUMNS,
                                           STOCK_ANALYSIS_PROCESSORS),
                     !.df = read_csv(csv)]
    /\ \E u \in EnvUrls :
         config = [s \in Sources |->
                     create_google_sheets_source(u, DefaultMaxRetries, SourceTTL(s))]
         /\ env = u
    /\ InitRest /\ RegStart

NextLoad == \E s \in Sources : \E f \in FetchRuns(config[s]) : LoadData(s, f)

SpecLoad == InitLoad /\ [][NextLoad]_vars

\* process_data on tables that differ in their labels, in the columns an
\* identifier can come from, and in the cells of a JSON column
InitShape ==
    /\ \E pandas \in Pandas :
         \/ \E csv \in VariantSheets :
               tlog = [NoTable EXCEPT
                         !.phase = "raw", !.pandas = pandas,
                         !.cfg = ProcessConfig(scId, NUMERIC_COLUMNS, JSON_COLUMNS, NO_PROCESSORS),
                         !.df = read_csv(csv)]
         \/ \E csv \in IdChoiceSheets, id \in IdColumns :
               tlog = [NoTable EXCEPT
                         !.phase = "raw", !.pandas = pandas,
                         !.cfg = ProcessConfig(id, NUMERIC_COLUMNS, JSON_COLUMNS, NO_PROCESSORS),
                         !.df = read_csv(csv)]
         \/ \E df \in JsonFrames :
               tlog = [NoTable EXCEPT
                         !.phase = "raw", !.pandas = pandas,
                         !.cfg = ProcessConfig(scId, NUMERIC_COLUMNS, JSON_COLUMNS, NO_PROCESSORS),
                         !.df = df]
    /\ env = <<>>
    /\ config = [s \in Sources |->
                  create_google_sheets_source(env, DefaultMaxRetries, SourceTTL(s))]
    /\ InitRest /\ RegStart

NextShape == ProcessData \/ Renormalize

SpecShape == InitShape /\ [][NextShape]_vars

SpecChain == InitChain /\ [][NextChain]_vars

----------------------------------------------------------------------------
(* Claims about the cache (Spec) *)

Failures == {"NotConfigured", "Unreachable", "ParseFailure"}

\* the watched call has just returned from the body of load_cached_data
WatchedLoadReturns == probe.who = probe'.who /\ ~probe.done /\ probe'.done

EntryOf(table, t) == [present |-> TRUE, table |-> table, storedAt |-> t]

\* C1: a call made while an entry of its source is within the ttl returns
\* that entry's table and invokes fetch_data zero times; a call made after
\* the ttl has run out invokes fetch_data exactly once, and the entry it
\* leaves is the table it returns (so a later hit returns the same snapshot
\* as the call that created the entry).
C1_CacheWithinTTL ==
    /\ [](probe.done /\ probe.prevState = "fresh"
            => probe.hit /\ probe.fetches = 0 /\ probe.ret = probe.prevTable)
    /\ [](probe.done /\ probe.prevState = "expired"
            => ~probe.hit /\ probe.fetches = 1)
    /\ [][WatchedLoadReturns
            => cache'[probe.src] = EntryOf(probe'.ret, now)]_vars

\* an entry with a table ran out and the call after it fetched a new table
C1_Witness ==
    /\ probe.done /\ probe.prevState = "expired" /\ ~IsEmpty(probe.prevTable)
    /\ probe.fetches = 1 /\ ~IsEmpty(probe.ret) /\ probe.ret # probe.prevTable

\* C2: when a non-empty entry exists and the refresh after its expiry ends
\* in a fetch failure, the call returns the previous entry's table, never
\* an empty table.
C2_StaleOnFailure ==
    probe.done /\ probe.prevState = "expired" /\ ~IsEmpty(probe.prevTable)
        /\ probe.msg \in Failures
    => probe.ret = probe.prevTable

\* C3: the lifetime of an entry is the cache_ttl of its own source: of two
\* entries written at the same time, at a time past the cache_ttl of a and
\* within that of b, a's is expired (the next call refetches) and b's is
\* still served.
C3_PerSourceTTL ==
    \A a, b \in Sources :
        /\ cache[a].present /\ cache[b].present
        /\ cache[a].storedAt = cache[b].storedAt
        /\ now - cache[a].storedAt >= config[a].cache_ttl
        /\ now - cache[b].storedAt < config[b].cache_ttl
        => ~Lookup(cache[a], now) /\ Lookup(cache[b], now)

\* C4: the first call for a source name made after clear_source_cache(name)
\* invokes fetch_data exactly once.
C4_InvalidateForcesRefetch ==
    probe.forced => probe.fetches = 1

Complete(tbl) == tbl = EmptyDF \/ (tbl.processed /\ ~tbl.empty /\ tbl.data \in 1..NumVersions)

\* C5: under every interleaving of the sessions' calls, every table a call
\* returns and every table a cache entry holds is a complete result of
\* load_data (the empty table, or a fetched table that process_data has
\* finished), and a call served from the cache returns the cached table.
C5_NoPartialTable ==
    /\ \A s \in Sources : cache[s].present => Complete(cache[s].table)
    /\ probe.done => Complete(probe.ret)
    /\ probe.done /\ probe.hit => probe.ret = probe.prevTable

\* a call returned a loaded table while the other session was still inside
\* a load of the same source
C5_Witness ==
    \E q \in Sessions :
        /\ probe.done /\ ~probe.hit /\ ~IsEmpty(probe.ret)
        /\ q # probe.who /\ sess[q].pc = "loading" /\ sess[q].src = probe.src
        /\ cache[probe.src].present

\* C6: when no entry exists and the load ends in a fetch failure or an
\* empty result, the empty table is written as the entry, and a call made
\* while that entry is within the ttl invokes fetch_data zero times.
C6_EmptyResultCached ==
    /\ [][WatchedLoadReturns /\ probe.prevState = "absent"
            /\ probe'.msg \in Failures \cup {"Empty"}
            => cache'[probe.src] = EntryOf(EmptyDF, now)]_vars
    /\ [](probe.done /\ probe.prevState = "fresh" /\ IsEmpty(probe.prevTable)
            => probe.fetches = 0 /\ IsEmpty(probe.ret))

\* a call was served the empty table that an earlier load had left
C6_Witness ==
    probe.done /\ probe.hit /\ probe.prevState = "fresh" /\ IsEmpty(probe.prevTable)

----------------------------------------------------------------------------
(* Claims about fetch_data (SpecFetch).  Every source has the same         *)
(* configuration there.                                                    *)

FetchCfg == config["money_control"]

AllTransient(f) == \A i \in 1..Len(f.seen) : f.seen[i] = "URLError"

\* 1, 2, 4, ...: the first wait is one second and each next one is twice
\* the one before
Doubling(w) ==
    \A i \in 1..Len(w) : w[i] = IF i = 1 THEN 1 ELSE 2 * w[i - 1]

\* C7: with a resolvable URL, when every attempt of a fetch fails with a
\* transient network error it makes exactly max_retries attempts, waits
\* between consecutive attempts (not after the last) for 1, 2, 4, ...
\* seconds and ends Unreachable; an attempt that parses a table is the last
\* one.
C7_RetryWithBackoff ==
    \A p \in Sessions :
        LET f == flog[p] IN
        f.over /\ connect(FetchCfg.sheet_url) =>
            /\ AllTransient(f) =>
                  /\ f.netCalls = FetchCfg.max_retries
                  /\ Len(f.waits) = (IF f.netCalls = 0 THEN 0 ELSE f.netCalls - 1)
                  /\ Doubling(f.waits)
                  /\ f.msg = "Unreachable"
            /\ \A i \in 1..Len(f.seen) :
                  f.seen[i] \in {"ok", "empty"} => i = Len(f.seen) /\ f.netCalls = i

\* three attempts failed, with waits of 1 and 2 seconds between them
C7_Witness ==
    \E p \in Sessions :
        /\ flog[p].over /\ flog[p].msg = "Unreachable"
        /\ flog[p].seen = <<"URLError", "URLError", "URLError">>
        /\ flog[p].waits = <<1, 2>>

\* C8: an attempt that ends in a parse error is the last attempt of the
\* fetch: the fetch ends ParseFailure and no wait follows it (the waits are
\* those after the transient failures before it), whatever budget remains.
C8_ParseFailureNoRetry ==
    \A p \in Sessions :
        LET f == flog[p] IN
        \A i \in 1..Len(f.seen) :
            f.seen[i] = "ParserError" =>
                /\ i = Len(f.seen) /\ f.netCalls = i
                /\ Len(f.waits) = i - 1
                /\ f.over /\ f.msg = "ParseFailure"

\* a parse error on the second of three permitted attempts
C8_Witness ==
    \E p \in Sessions :
        /\ flog[p].seen = <<"URLError", "ParserError">>
        /\ FetchCfg.max_retries >= 3
        /\ flog[p].over

\* C9: the value fetch_data returns for a sheet without rows differs from
\* the value it returns for every failure.
C9_EmptyDistinctFromFailure ==
    \A p, q \in Sessions :
        /\ flog[p].over /\ flog[p].msg = "Empty"
        /\ flog[q].over /\ flog[q].msg \in Failures
        => flog[p].df # flog[q].df

\* some i with url[i..i+2] = "/d/" and a key character after it
HasDocId(url) ==
    \E i \in 1..Len(url) :
        /\ i + 3 <= Len(url)
        /\ SubSeq(url, i, i + 2) = <<"/", "d", "/">>
        /\ url[i + 3] \in KeyChars

\* C10: when sheet_url is empty or holds no "/d/<key>", fetch_data ends
\* NotConfigured with no network attempt and no wait, and connect() is
\* false.
C10_NotConfigured ==
    \A p \in Sessions :
        flog[p].over /\ ~HasDocId(FetchCfg.sheet_url) =>
            /\ flog[p].msg = "NotConfigured"
            /\ flog[p].netCalls = 0 /\ flog[p].waits = <<>>
            /\ IsEmpty(flog[p].df)
            /\ ~connect(FetchCfg.sheet_url)

\* a non-empty sheet_url without a document key, with attempts permitted
C10_Witness ==
    \E p \in Sessions :
        /\ flog[p].over /\ flog[p].msg = "NotConfigured"
        /\ FetchCfg.sheet_url # <<>> /\ FetchCfg.max_retries >= 1

----------------------------------------------------------------------------
(* Claims about the registry (SpecReg) *)

\* C11: ensure_data_source(name) lets no exception out, and it returns
\* true exactly when get(name) returns a registered source after the call.
C11_EnsureIffRegistered ==
    rlog.op = "ensure" =>
        /\ rlog.raised = "none"
        /\ rlog.ret <=> get(registry, rlog.name) # None

\* the source the last write for name n in h left, None after a clear
RECURSIVE LastPut(_, _)
LastPut(h, n) ==
    IF h = <<>> THEN None
    ELSE LET e == h[Len(h)]
         IN IF e = ClearMark THEN None
            ELSE IF e.name = n THEN e.source
            ELSE LastPut(SubSeq(h, 1, Len(h) - 1), n)

\* C12: after every sequence of register, create and clear calls (and the
\* registrations of init_data_sources) get(name) returns, for every name,
\* the one source of the most recent registration of that name since the
\* last clear, and None when there is none; register lets no exception out
\* and changes the entry of no other name.
C12_LatestRegistrationWins ==
    /\ [](\A n \in Names : get(registry, n) = LastPut(hist, n))
    /\ [][rlog'.op = "register" =>
            /\ rlog'.raised = "none"
            /\ get(registry', rlog'.name) = rlog'.source
            /\ \A n \in Names \ {rlog'.name} : get(registry', n) = get(registry, n)]_vars

\* a name was registered twice with different sources and get returns the
\* second one
C12_Witness ==
    /\ Len(hist) >= 2 /\ rlog.op = "register"
    /\ hist[Len(hist)].name = hist[Len(hist) - 1].name
    /\ hist[Len(hist)].source # hist[Len(hist) - 1].source
    /\ get(registry, rlog.name) = rlog.source

\* an unknown source kind, or a sheet_url that is no sheet link
Invalid(source) ==
    \/ source.config.source_type \notin _source_types
    \/ ~connect(source.config.conn.sheet_url)

\* C13: a register or create call with an invalid configuration lets no
\* exception out, get(name) does not return that source afterwards, and
\* the entries of all other names are as before.
C13_InvalidConfigIsolated ==
    /\ [](rlog.op \in {"register", "create"} /\ Invalid(rlog.source) =>
            /\ rlog.raised = "none"
            /\ get(registry, rlog.name) # rlog.source)
    /\ [][rlog'.op \in {"register", "create"} /\ Invalid(rlog'.source) =>
            \A n \in Names \ {rlog'.name} : get(registry', n) = get(registry, n)]_vars

----------------------------------------------------------------------------
(* Claims about process_data and the processors (SpecTab) *)

\* process_data has returned
Done == tlog.phase \in {"done", "again"}

Processors == tlog.cfg.derived_column_processors

OutputColumns(fn) ==
    IF fn = "compute_pe_vs_sector" THEN {pe_vs_sector_pct, pe_vs_sector_flag}
    ELSE {analyst_confidence_score, analyst_confidence}

\* column name is in both frames with the same cells, or in neither
SameColumn(a, b, name) ==
    /\ HasColumn(a, name) <=> HasColumn(b, name)
    /\ HasColumn(a, name) => Cells(a, name) = Cells(b, name)

\* the processors of the list that do not raise, applied in order
RECURSIVE ApplySucceeding(_, _)
ApplySucceeding(df, processors) ==
    IF processors = <<>> THEN df
    ELSE LET p == Head(processors)
         IN Then(IF p.raises # "no" THEN df
                 ELSE IF p.fn = "compute_pe_vs_sector" THEN compute_pe_vs_sector(df)
                 ELSE compute_analyst_confidence(df),
                 LAMBDA next : ApplySucceeding(next, Tail(processors)))

\* C14, amended: whichever processors of the list raise, process_data
\* returns the table that the processors that do not raise make of the
\* normalized table, applied in the order of the list, each to the output
\* of the one that succeeded before it; and every output column of a
\* processor that raised is as the normalized table has it: absent, or the
\* sheet's own column of that name with the sheet's cells.
C14_RaisingProcessorSkipped ==
    Done =>
        /\ tlog.out = ApplySucceeding(tlog.norm, Processors)
        /\ \A i \in 1..Len(Processors) :
              Processors[i].raises # "no" =>
                  \A c \in OutputColumns(Processors[i].fn) \
                           UNION {OutputColumns(Processors[j].fn) :
                                    j \in {k \in 1..Len(Processors) : Processors[k].raises = "no"}} :
                      SameColumn(tlog.out, tlog.norm, c)

\* C14 as stated: whichever processors of the list raise, the succeeding
\* ones are applied in order, and no output column of a processor that
\* raised is in the table process_data returns.
C14_RaisedColumnsAbsent ==
    Done =>
        /\ tlog.out = ApplySucceeding(tlog.norm, Processors)
        /\ \A i \in 1..Len(Processors) :
              Processors[i].raises # "no" =>
                  \A c \in OutputColumns(Processors[i].fn) : ~HasColumn(tlog.out, c)

\* the valuation processor raised between its two columns, the confidence
\* processor ran, and the result has the columns of the second only
C14_Witness ==
    /\ Done /\ Len(Processors) = 2
    /\ Processors[1].raises = "between" /\ Processors[2].raises = "no"
    /\ HasColumn(tlog.out, analyst_confidence_score)
    /\ HasColumn(tlog.out, analyst_confidence)
    /\ ~HasColumn(tlog.out, pe_vs_sector_pct)
    /\ ~HasColumn(tlog.out, pe_vs_sector_flag)

\* C15: every column of the normalized table is in the table process_data
\* returns, with the same cells.
C15_ProcessorsOnlyAppend ==
    Done =>
        \A i \in 1..Len(tlog.norm.cols) :
            /\ HasColumn(tlog.out, tlog.norm.cols[i].name)
            /\ Cells(tlog.out, tlog.norm.cols[i].name) = tlog.norm.cols[i].cells

\* the sheet has a column that process_data takes the identifier from
HasIdSource ==
    \E i \in 1..Len(tlog.df.cols) :
        _to_snake_case(tlog.df.cols[i].name) \in {_to_snake_case(tlog.cfg.id_column), scid}

\* C16: after process_data the identifier of every row is a text that is
\* not empty (never None or NaN), also for a row whose identifier cell is
\* missing in the sheet; when the sheet has no identifier column it is the
\* zero-based position of the row, as text.
C16_IdentifierPresent ==
    Done =>
        /\ HasColumn(tlog.out, scId)
        /\ \A r \in 1..tlog.out.n :
              LET id == Cells(tlog.out, scId)[r]
              IN /\ id.k = "str" /\ id.s # <<>>
                 /\ ~HasIdSource => id.s = IntText(r - 1)

\* a sheet with an identifier column in which the cell of a row is missing
C16_Witness ==
    /\ Done /\ HasIdSource
    /\ \E i \in 1..Len(tlog.df.cols), r \in 1..tlog.df.n :
          /\ tlog.df.cols[i].name = scId
          /\ tlog.df.cols[i].cells[r] = NaN
          /\ Cells(tlog.out, scId)[r] = Str(<<"n", "a", "n">>)

\* C17: after process_data no two rows have the same identifier.
C17_IdentifierUnique ==
    Done =>
        \A r1, r2 \in 1..tlog.out.n :
            r1 # r2 => Cells(tlog.out, scId)[r1] # Cells(tlog.out, scId)[r2]

\* a cell that holds a number or the text of one
Parses(c) == c.k = "num" \/ (c.k = "str" /\ IsNumeral(c.s))
NumberOf(c) == IF c.k = "num" THEN c.n ELSE ParseInt(c.s)

\* the columns of the sheet that are declared numeric, by their labels
NumericSheetColumns ==
    LET declared == {_to_snake_case(tlog.cfg.numeric_columns[j]) :
                        j \in 1..Len(tlog.cfg.numeric_columns)}
    IN {i \in 1..Len(tlog.df.cols) : _to_snake_case(tlog.df.cols[i].name) \in declared}

\* C18: in every declared numeric column of the sheet, process_data makes
\* of a cell its number when the cell holds a number or the text of one,
\* and a null (None or NaN) otherwise; normalizing the output once more
\* leaves every such cell as it is.
C18_NumericCoercion ==
    Done =>
        \A i \in NumericSheetColumns :
            LET name == _to_snake_case(tlog.df.cols[i].name)
            IN /\ HasColumn(tlog.out, name)
               /\ \A r \in 1..tlog.df.n :
                     LET c == tlog.df.cols[i].cells[r]
                         o == Cells(tlog.out, name)[r]
                     IN /\ Parses(c) => o = Num(NumberOf(c))
                        /\ ~Parses(c) => ~notnull(o)
                        /\ tlog.phase = "again" => Cells(tlog.again, name)[r] = o

\* a numeric column with a number in one row and a word in another, after
\* the second normalization
C18_Witness ==
    /\ tlog.phase = "again"
    /\ \E i \in NumericSheetColumns, r1, r2 \in 1..tlog.df.n :
          /\ tlog.df.cols[i].cells[r1] = Str(<<"x">>)
          /\ tlog.df.cols[i].cells[r2] = Str(<<"8">>)
          /\ ~notnull(Cells(tlog.again, _to_snake_case(tlog.df.cols[i].name))[r1])
          /\ Cells(tlog.again, _to_snake_case(tlog.df.cols[i].name))[r2] = Num(8)

\* the valuation processor ran to its end
ValuationRan ==
    /\ Done /\ Len(Processors) >= 1
    /\ Processors[1] = Processor("compute_pe_vs_sector", "no")

\* C19: in the output of the valuation processor on a normalized table,
\* pe_vs_sector_pct is null in every row whose benchmark is 0 or whose
\* multiple or benchmark is missing, and pe_vs_sector_flag is "Unknown" in
\* every row whose pe_vs_sector_pct is null.
C19_NullDeltaIsUnknown ==
    ValuationRan =>
        \A r \in 1..tlog.out.n :
            LET value == RowGet(tlog.norm, ttm_pe, r)
                benchmark == RowGet(tlog.norm, sector_pe, r)
                pct == Cells(tlog.out, pe_vs_sector_pct)[r]
                flag == Cells(tlog.out, pe_vs_sector_flag)[r]
            IN /\ benchmark = Num(0) \/ ~notnull(value) \/ ~notnull(benchmark)
                    => ~notnull(pct)
               /\ ~notnull(pct) => flag = Str(<<"U", "n", "k", "n", "o", "w", "n">>)

\* C20: in every row where pe_vs_sector_pct is a number it is
\* (value - benchmark) / benchmark * 100, and pe_vs_sector_flag is "Cheap"
\* when it is <= -PE_CHEAP_PCT, else "Expensive" when it is >=
\* PE_DELTA_PCT, else "Fair"; both thresholds are 20.
C20_ValuationLabels ==
    ValuationRan =>
        \A r \in 1..tlog.out.n :
            LET value == RowGet(tlog.norm, ttm_pe, r)
                benchmark == RowGet(tlog.norm, sector_pe, r)
                pct == Cells(tlog.out, pe_vs_sector_pct)[r]
                flag == Cells(tlog.out, pe_vs_sector_flag)[r]
            IN pct.k = "num" =>
                /\ value.k = "num" /\ benchmark.k = "num" /\ benchmark.n # 0
                /\ pct.n * benchmark.n = (value.n - benchmark.n) * 100
                /\ flag = IF pct.n <= -20 THEN Str(<<"C", "h", "e", "a", "p">>)
                          ELSE IF pct.n >= 20 THEN Str(<<"E", "x", "p", "e", "n", "s", "i", "v", "e">>)
                          ELSE Str(<<"F", "a", "i", "r">>)

\* a table with a row at each boundary: -20 labelled Cheap, 20 Expensive
C20_Witness ==
    /\ ValuationRan
    /\ \E r1, r2 \in 1..tlog.out.n :
          /\ Cells(tlog.out, pe_vs_sector_pct)[r1] = Num(-20)
          /\ Cells(tlog.out, pe_vs_sector_flag)[r1] = Str(<<"C", "h", "e", "a", "p">>)
          /\ Cells(tlog.out, pe_vs_sector_pct)[r2] = Num(20)
          /\ Cells(tlog.out, pe_vs_sector_flag)[r2] = Str(<<"E", "x", "p", "e", "n", "s", "i", "v", "e">>)

----------------------------------------------------------------------------
(* Claims about the processor chain (SpecChain) *)

ComputedColumns ==
    {pe_vs_sector_pct, pe_vs_sector_flag, analyst_confidence_score, analyst_confidence}

ColumnNames(df) == [i \in 1..Len(df.cols) |-> df.cols[i].name]

\* C21: the chain compute_pe_vs_sector, compute_analyst_confidence applied
\* to its own output gives in each of the four computed columns the values
\* of the first application in every row, and the table has the columns of
\* the first application and no other.
C21_ChainIdempotent ==
    tlog.phase = "twice" =>
        /\ ColumnNames(tlog.twice) = ColumnNames(tlog.out)
        /\ \A c \in ComputedColumns :
              /\ HasColumn(tlog.out, c)
              /\ Cells(tlog.twice, c) = Cells(tlog.out, c)

\* the chain ran twice on a table with a row that has a percentage and a
\* score and a row that has neither
C21_Witness ==
    /\ tlog.phase = "twice" /\ tlog.out.n >= 2
    /\ \E r1, r2 \in 1..tlog.out.n :
          /\ Cells(tlog.twice, pe_vs_sector_pct)[r1] = Num(-20)
          /\ Cells(tlog.twice, analyst_confidence_score)[r1].k = "num"
          /\ ~notnull(Cells(tlog.twice, pe_vs_sector_pct)[r2])
          /\ ~notnull(Cells(tlog.twice, analyst_confidence_score)[r2])

\* the weight of a rating, in tenths: that of the rating as it is written,
\* else that of the rating in title case, else 5
WeightOfRating(rating) ==
    LET key == IF notnull(rating) THEN strip(CellText(rating)) ELSE <<>>
        of(k) == {w[2] : w \in {x \in ANALYST_SCORE_WEIGHTS : x[1] = k}}
    IN IF of(key) # {} THEN CHOOSE w \in of(key) : TRUE
       ELSE IF of(title(key)) # {} THEN CHOOSE w \in of(title(key)) : TRUE
       ELSE 5

\* C26: in the output of the confidence processor, a row whose analyst
\* count is missing has a null score and the bucket "Unknown"; every other
\* row has score = weight * (min(count, 10) / 10) * 100 with the weight of
\* its rating, and the bucket "High" when score >= 70, else "Medium" when
\* score >= 40, else "Low".
C26_ConfidencePerRow ==
    tlog.phase = "done" =>
        \A r \in 1..tlog.out.n :
            LET count == RowGet(tlog.norm, analyst_count, r)
                rating == RowGet(tlog.norm, analyst_final_rating, r)
                score == Cells(tlog.out, analyst_confidence_score)[r]
                bucket == Cells(tlog.out, analyst_confidence)[r]
            IN IF ~notnull(count)
               THEN ~notnull(score) /\ bucket = Str(<<"U", "n", "k", "n", "o", "w", "n">>)
               ELSE /\ score.k = "num"
                    /\ score.n * 10 = WeightOfRating(rating) * 10
                                         * (IF count.n < 10 THEN count.n ELSE 10)
                    /\ bucket = IF score.n >= 70 THEN Str(<<"H", "i", "g", "h">>)
                                ELSE IF score.n >= 40 THEN Str(<<"M", "e", "d", "i", "u", "m">>)
                                ELSE Str(<<"L", "o", "w">>)

----------------------------------------------------------------------------
(* Claims about the shape of the normalized table (SpecShape) *)

\* the canonical names of the labels of the table process_data was given
Canonical == [i \in 1..Len(tlog.df.cols) |-> _to_snake_case(tlog.df.cols[i].name)]

\* C22: labels that are spellings of one logical column ("CompanyName",
\* "Company Name", "company_name", "companyName") all have the same
\* canonical name, and the normalized table of a sheet whose columns carry
\* such labels has, besides the identifier, one column.
C22_VariantsOneColumn ==
    Done /\ (\A i \in 1..Len(tlog.df.cols) : tlog.df.cols[i].name \in CompanyNameLabels) =>
        /\ \A i, j \in 1..Len(tlog.df.cols) : Canonical[i] = Canonical[j]
        /\ Cardinality({i \in 1..Len(tlog.norm.cols) : tlog.norm.cols[i].name # scId}) = 1

\* the canonical names of the columns process_data converts
DeclaredNames ==
    {_to_snake_case(tlog.cfg.numeric_columns[j]) : j \in 1..Len(tlog.cfg.numeric_columns)}
        \cup {_to_snake_case(tlog.cfg.json_columns[j]) : j \in 1..Len(tlog.cfg.json_columns)}

\* C23: no two columns of the normalized table have the same name; every
\* canonical name of a raw column is the name of a column, and its cells
\* are those of the last raw column of that canonical name (text cells of
\* a column that is not declared numeric or JSON stay as they are).
C23_NoDuplicateColumns ==
    Done =>
        /\ \A i, j \in 1..Len(tlog.norm.cols) :
              i # j => tlog.norm.cols[i].name # tlog.norm.cols[j].name
        /\ \A i \in 1..Len(tlog.df.cols) :
              LET same == {j \in 1..Len(tlog.df.cols) : Canonical[j] = Canonical[i]}
                  last == CHOOSE j \in same : \A k \in same : k <= j
              IN /\ HasColumn(tlog.norm, Canonical[i])
                 /\ Canonical[i] \notin DeclaredNames =>
                      \A r \in 1..tlog.df.n :
                          tlog.df.cols[last].cells[r].k = "str" =>
                              Cells(tlog.norm, Canonical[i])[r] = tlog.df.cols[last].cells[r]

\* two raw columns of one canonical name with different cells; the
\* normalized column has the cells of the second
C23_Witness ==
    /\ Done /\ Len(tlog.df.cols) = 2
    /\ Canonical[1] = Canonical[2]
    /\ tlog.df.cols[1].cells # tlog.df.cols[2].cells
    /\ Cells(tlog.norm, Canonical[1]) = tlog.df.cols[2].cells

\* the raw column the identifier is to come from: the configured one, else
\* the one named scid; 0 when the sheet has neither
IdentifierSource ==
    LET named(name) == {i \in 1..Len(tlog.df.cols) : Canonical[i] = name}
        configured == named(_to_snake_case(tlog.cfg.id_column))
    IN IF configured # {} THEN CHOOSE i \in configured : \A k \in configured : k <= i
       ELSE IF named(scid) # {} THEN CHOOSE i \in named(scid) : \A k \in named(scid) : k <= i
       ELSE 0

\* C24: the normalized table has exactly one identifier column, named by
\* the canonical name of the configured identifier column ("sid" for
\* "Sid"); its cells are those of the configured column when the sheet has
\* it, else those of the column scid, else the positions of the rows.
C24_IdentifierColumnName ==
    Done =>
        LET name == _to_snake_case(tlog.cfg.id_column)
        IN /\ HasColumn(tlog.norm, name)
           /\ name # scId => ~HasColumn(tlog.norm, scId)
           /\ \A r \in 1..tlog.norm.n :
                 Cells(tlog.norm, name)[r] =
                    IF IdentifierSource = 0 THEN Str(IntText(r - 1))
                    ELSE tlog.df.cols[IdentifierSource].cells[r]

\* C25: process_data never raises over the cells of a declared JSON column
\* that is present, and makes of a cell: the same value when it is a dict
\* or a list (empty or not), the decoded value when it is a text of valid
\* JSON, and null when it is a text that is no JSON, is empty, or is null.
C25_JsonCells ==
    /\ tlog.phase # "raised"
    /\ Done =>
          \A i \in 1..Len(tlog.df.cols) :
              Canonical[i] \in {_to_snake_case(tlog.cfg.json_columns[j]) :
                                    j \in 1..Len(tlog.cfg.json_columns)} =>
                  \A r \in 1..tlog.df.n :
                      LET c == tlog.df.cols[i].cells[r]
                          o == Cells(tlog.norm, Canonical[i])[r]
                      IN o = IF c.k \in {"dict", "list"} THEN c
                             ELSE IF c.k = "str" /\ json_loads(c.s).ok THEN json_loads(c.s).value
                             ELSE PyNone

----------------------------------------------------------------------------
(* Claims about the invalidation (SpecClear) and the cache key (SpecKey) *)

\* C27: clear_source_cache(A) drops the entry of every source name, so the
\* first load_cached_data call made after it for any name B, B = A or not
\* and however fresh B's entry was, is not served from the cache and
\* invokes fetch_data once.
C27_ClearRefetchesEverySource ==
    \A b \in Sources :
        probe.forced /\ probe.src = b => ~probe.hit /\ probe.fetches = 1

\* C28: the key of an entry is the source name alone.  Whatever source is
\* registered under the name since the entry was written, a call made
\* within the ttl is served the entry's table and invokes fetch_data zero
\* times; a call made after the ttl has run out, or after the cache was
\* cleared, invokes fetch_data once; and a registration leaves the entries
\* as they are.
C28_KeyIsNameOnly ==
    /\ [](probe.done /\ probe.prevState = "fresh"
            => probe.hit /\ probe.fetches = 0 /\ probe.ret = probe.prevTable)
    /\ [](probe.done /\ probe.prevState \in {"expired", "absent"}
            => ~probe.hit /\ probe.fetches = 1)
    /\ [][registry' # registry => cache' = cache]_vars

\* a call was served a table with rows while the source registered under
\* its name, another one than at the start, has no endpoint to fetch from
C28_Witness ==
    /\ probe.done /\ probe.hit /\ ~IsEmpty(probe.ret)
    /\ registry[probe.src] # None
    /\ ~connect(registry[probe.src].config.conn.sheet_url)
    /\ config[probe.src] = registry[probe.src].config.conn

----------------------------------------------------------------------------
(* Claims about fetch_data for any max_retries (SpecFetchAny) *)

\* the attempts of f that ended in a transient failure and were not the
\* last attempt that max_retries = n permits
RetriedFailures(f, n) ==
    {i \in 1..Len(f.seen) : f.seen[i] = "URLError" /\ i - 1 < n - 1}

\* C29: one fetch_data call makes at most max_retries network attempts,
\* whatever they end in; it waits once after each transient failure that
\* is not the last permitted attempt and at no other time, for 2^attempt
\* seconds, so at most max_retries - 1 times; and with max_retries <= 0 it
\* makes no attempt, never waits and returns the empty table with a
\* failure message.
C29_AttemptsAndWaitsBounded ==
    \A p \in Sessions :
        LET f == flog[p]
            n == FetchCfg.max_retries
        IN f.over =>
            /\ f.netCalls <= (IF n > 0 THEN n ELSE 0)
            /\ Len(f.seen) = f.netCalls
            /\ Len(f.waits) = Cardinality(RetriedFailures(f, n))
            /\ \A j \in 1..Len(f.waits) :
                    j \in RetriedFailures(f, n) /\ f.waits[j] = Pow2(j - 1)
            /\ Len(f.waits) <= (IF n >= 1 THEN n - 1 ELSE 0)
            /\ n <= 0 =>
                  /\ f.netCalls = 0 /\ f.waits = <<>> /\ f.df = EmptyDF
                  /\ f.msg = (IF connect(FetchCfg.sheet_url)
                              THEN "Unreachable" ELSE "NotConfigured")

\* a fetch with a resolvable URL and a negative max_retries has returned
C29_Witness ==
    \E p \in Sessions :
        /\ flog[p].over /\ FetchCfg.max_retries < 0
        /\ connect(FetchCfg.sheet_url)
        /\ flog[p].msg = "Unreachable"

----------------------------------------------------------------------------
(* Claims about load_data (SpecLoad) *)

\* C30: load_data hands to process_data only a fetch result with rows.
\* Every failure of fetch_data and every sheet without rows gives an empty
\* fetch result; load_data returns an empty fetch result as it is, invokes
\* no processor, and the table it returns has neither an identifier
\* column nor any of the derived columns.
C30_EmptyFetchUnprocessed ==
    tlog.phase = "loaded" =>
        /\ tlog.msg \in Failures \cup {"Empty"} => Empty(tlog.fetched)
        /\ tlog.invoked # <<>> => ~Empty(tlog.fetched)
        /\ Empty(tlog.fetched) =>
              /\ tlog.out = tlog.fetched
              /\ tlog.invoked = <<>>
              /\ ~HasColumn(tlog.out, scId)
              /\ ~HasColumn(tlog.out, _to_snake_case(tlog.cfg.id_column))
              /\ \A c \in ComputedColumns : ~HasColumn(tlog.out, c)

\* the sheet at the endpoint has a header and no row; load_data returned
\* the table without columns that fetch_data made of it
C30_Witness ==
    /\ tlog.phase = "loaded" /\ tlog.msg = "Empty"
    /\ tlog.df.n = 0 /\ Len(tlog.df.cols) > 0
    /\ tlog.out = NoFrame

====
